---- MODULE Spec2Model ----
(***************************************************************************)
(* Model of the pipeline coordination layer of the video compositor:      *)
(*   - compositor_pipeline/src/pipeline.rs : Pipeline (registries, start,  *)
(*     render driver worker)                                               *)
(*   - src/api.rs, src/api/register_request.rs : request dispatcher        *)
(* Collaborators whose source is not part of src/ (Queue, Input, Decoder,  *)
(* Encoder, Output, Renderer) are modelled by their interface only.        *)
(***************************************************************************)
EXTENDS Integers, Sequences, FiniteSets, TLC

(***************************************************************************)
(* Value domains of the requests.                                          *)
(***************************************************************************)
InputIds == {"in_a", "in_b"}
OutputIds == {"out_1", "out_2"}
Ports == {5000, 5001, 5002}
OutAddrs == { [ip |-> "127.0.0.1", port |-> 8002],
              [ip |-> "127.0.0.1", port |-> 8004],
              [ip |-> "10.0.0.1", port |-> 8002] }
Resolutions == { [width |-> 1920, height |-> 1080],
                 [width |-> 1280, height |-> 720],
                 [width |-> 1921, height |-> 1080],
                 [width |-> 1920, height |-> 1081] }

\* Injected construction failures of the collaborators.
InputFaults == {"none", "transport", "decoder"}
OutputFaults == {"none", "encoder", "output"}
SceneFaults == {"none", "renderer"}

\* Bounds of the model.
MaxStarts == 2
MaxScenes == 2
MaxBatches == 24

\* pipeline.rs:213  `frames_receiver.len() > 20`
RENDER_BACKLOG_DROP == 20

VARIABLES
    \* ---- Pipeline (pipeline.rs:50-56) and the resources it owns
    inputs,        \* Pipeline.inputs : InputId -> [port]
    outputs,       \* Pipeline.outputs: OutputId -> [ip, port, resolution]
    queueInputs,   \* Queue: set of registered InputIds
    is_started,    \* Pipeline.is_started
    transports,    \* ports bound by live input transports (Input)
    decoders,      \* InputIds whose Decoder is live
    encoders,      \* OutputIds whose Encoder is live
    senders,       \* OutputIds whose Output transport is live
    queueStarts,   \* number of Queue::start calls made
    workers,       \* number of render driver workers spawned
    \* ---- environment
    externalPorts, \* ports bound by other processes
    session,       \* the kind of stream the client of this run manages
    \* ---- last request handled by the dispatcher
    request,       \* the request
    response,      \* its response
    calls,         \* the Pipeline/Renderer calls its handler made, in order
    \* ---- render driver worker (pipeline.rs:211-237) and its channel
    channel,       \* batches queued between Queue and the worker (tick ids)
    senderAlive,   \* a Sender of the channel still exists
    queueActive,   \* the Queue still emits batches
    sent,          \* batches the Queue has sent
    driverPc,      \* position of the worker in its loop
    current,       \* batch taken by the worker (tick id), -1 if none
    pending,       \* rendered frames (OutputIds) not yet dispatched
    dropped,       \* batches dropped by the backlog check
    renderCalls,   \* calls of renderer.render
    submitted,     \* OutputIds whose encoder got the frame of `current`
    stoppedLong,   \* the Queue stopped emitting at a backlog above the limit
    renderFailed,  \* renderer.render returned an error for the current batch
    skipped,       \* outputs of the current batch logged as `no output with id`
    \* ---- deferred WaitForNextFrame queries (api.rs:133-142, http.rs:85-118)
    queries,       \* query -> [state, input, buf, rx, since]: handler state,
                   \*   the bounded(1) channel's content, its Receiver, and
                   \*   the number of frames enqueued before the subscription
    listeners,     \* Queue: pending listeners, [query, input]
    qResponses,    \* query -> HTTP responses sent for it, in order
    fires,         \* query -> invocations of its callback, [input, seq]
    enqSeq,        \* number of Queue::enqueue calls made so far
    panicked,      \* a callback's `send(..).unwrap()` has panicked
    \* ---- Queue (the aligner) and the facade calls that run beside it
    qStarted,      \* Queue: tick emission is running
    tick,          \* Queue: index k of the next tick
    buffers,       \* Queue: InputId -> buffered frames [seq, pts], oldest first
    tickLog,       \* PTS of the ticks the Queue has processed, in order
    batches,       \* aligned batches emitted, in order: [tick, pts, frames,
                   \*   registered], `registered` the InputIds in
                   \*   Pipeline.inputs at the emission
    facadePc,      \* the Pipeline call in progress between its registry
                   \*   write and its Queue call: [op, id]
    \* ---- the workers of several Start requests (pipeline.rs:200-237)
    wChannel,      \* worker -> batches (tick ids) queued on its channel
    wSender,       \* worker -> the Queue holds the Sender of its channel
    wPc,           \* worker -> position in its loop
    wCurrent,      \* worker -> batch taken (tick id), -1 if none
    wPending,      \* worker -> rendered frames (OutputIds) not yet dispatched
    encFrames,     \* OutputId -> tick ids of the frames its encoder got
    wHandle,       \* per worker: the output whose handle it cloned (pipeline.rs:228)
    lateFrames,    \* per output: frames submitted after its unregister_output returned
    \* ---- the mutex of the output registry (pipeline.rs:253-281)
    regLock,       \* the thread holding the mutex, or "free"
    tPc,           \* per thread: its position in the operation it runs
    tArg,          \* per thread: the arguments and locals of that operation
    overwritten,   \* an insert replaced an entry (HashMap::insert returned Some)
    \* ---- u16 arithmetic of the port search (register_request.rs:91)
    overflow_checks, \* the build traps integer overflow (rustc -C overflow-checks)
    probeWrapped,  \* an `input.port + 1` exceeded u16::MAX and wrapped to 0
    handlerPanicked, \* the request handler thread panicked
    \* ---- configuration (config.rs:42-123)
    env,           \* the environment variables read_config reads
    CONFIG,        \* the OnceLock<Config> of config()
    configCall     \* outcome of the last config() call

pipelineVars == <<inputs, outputs, queueInputs, is_started, transports,
                  decoders, encoders, senders, queueStarts, workers>>
apiVars == <<request, response, calls>>
driverVars == <<channel, senderAlive, queueActive, sent, driverPc, current,
                pending, dropped, renderCalls, submitted, stoppedLong,
                renderFailed, skipped>>
queryVars == <<queries, listeners, qResponses, fires, enqSeq, panicked>>
queueVars == <<qStarted, tick, buffers, tickLog, batches, facadePc>>
workerVars == <<wChannel, wSender, wPc, wCurrent, wPending, encFrames,
                wHandle, lateFrames>>
configVars == <<env, CONFIG, configCall>>
lockVars == <<regLock, tPc, tArg, overwritten>>
probeVars == <<overflow_checks, probeWrapped, handlerPanicked>>
extVars == <<queryVars, queueVars, workerVars, configVars, lockVars,
             probeVars>>
vars == <<pipelineVars, externalPorts, session, apiVars, driverVars, extVars>>

\* Bounds of the deferred-query model.
MaxQueries == 2
MaxFrames == 2
Queries == 1..MaxQueries

\* No WaitForNextFrame query was made and no frame was enqueued.
QueryIdle ==
    /\ queries = [q \in Queries |-> [state |-> "none", input |-> "none",
                                     buf |-> 0, rx |-> FALSE, since |-> 0]]
    /\ listeners = {}
    /\ qResponses = [q \in Queries |-> <<>>]
    /\ fires = [q \in Queries |-> <<>>]
    /\ enqSeq = 0
    /\ panicked = FALSE

\* Bounds of the Queue model.  Frame PTS are counted in half tick periods.
MaxTicks == 2
FramePts == 0..2
\* Soft bound of an input's buffer.
BufferBound == 2

\* Config framerate num/den handed to Queue::new (pipeline.rs:75).
Framerate == [num |-> 30, den |-> 1]

FacadeIdle == [op |-> "idle", id |-> "none"]

\* Queue::new: not started, tick 0, no buffer.
QueueIdle ==
    /\ qStarted = FALSE
    /\ tick = 0
    /\ buffers = [i \in InputIds |-> <<>>]
    /\ tickLog = <<>>
    /\ batches = <<>>
    /\ facadePc = FacadeIdle

\* The workers are not followed one by one.
Workers == 1..MaxStarts

WorkersIdle ==
    /\ wChannel = [w \in Workers |-> <<>>]
    /\ wSender = [w \in Workers |-> FALSE]
    /\ wPc = [w \in Workers |-> "none"]
    /\ wCurrent = [w \in Workers |-> -1]
    /\ wPending = [w \in Workers |-> {}]
    /\ encFrames = [o \in OutputIds |-> <<>>]
    /\ wHandle = [w \in Workers |-> "none"]
    /\ lateFrames = [o \in OutputIds |-> 0]

\* Values of an environment variable: unset, a text that parses as no
\* number, a text that parses as a float that is not finite ("NaN", "inf"),
\* or a decimal integer.
MaxEnvNumber == 24
EnvUnset == [kind |-> "unset"]
EnvText == [kind |-> "text"]
EnvNotFinite == [kind |-> "not_finite"]
EnvNumber(n) == [kind |-> "number", n |-> n]
EnvValues == {EnvUnset, EnvText, EnvNotFinite} \cup
             { EnvNumber(n) : n \in (-1)..MaxEnvNumber }

\* config.rs:55
DEFAULT_API_PORT == 8081
\* config.rs:97  Duration::from_millis(2000); a Duration is kept in ms
DEFAULT_STREAM_FALLBACK_TIMEOUT == 2000
MillisPerSec == 1000
MaxU16 == 65535

\* Outcome of a call that returns a value or panics.
Panic == [panic |-> TRUE]
Returns(x) == [panic |-> FALSE, value |-> x]

\* Duration::from_secs_f64: x seconds; panics when x is negative.
Duration_from_secs_f64(x) ==
    IF x < 0 THEN Panic ELSE Returns(x * MillisPerSec)

\* config.rs:51-56  LIVE_COMPOSITOR_API_PORT
read_api_port(v) ==
    CASE v.kind = "unset" -> [ok |-> TRUE, value |-> DEFAULT_API_PORT]
      [] v.kind = "number" /\ v.n \in 0..MaxU16 -> [ok |-> TRUE, value |-> v.n]
      [] OTHER -> [ok |-> FALSE]

\* config.rs:97-107  LIVE_COMPOSITOR_STREAM_FALLBACK_TIMEOUT_MS
read_stream_fallback_timeout(v) ==
    CASE v.kind = "unset" -> Returns(DEFAULT_STREAM_FALLBACK_TIMEOUT)
      [] v.kind = "text" -> Returns(DEFAULT_STREAM_FALLBACK_TIMEOUT)
      [] v.kind = "not_finite" -> Panic
      [] v.kind = "number" -> Duration_from_secs_f64(v.n)

\* config.rs:50-123  read_config: Err for an invalid port, else the Config
\* (a panic of the timeout conversion leaves read_config by unwinding).
read_config(e) ==
    LET api_port == read_api_port(e.LIVE_COMPOSITOR_API_PORT)
        timeout ==
            read_stream_fallback_timeout(e.LIVE_COMPOSITOR_STREAM_FALLBACK_TIMEOUT_MS)
    IN IF ~api_port.ok THEN [result |-> "err"]
       ELSE IF timeout.panic THEN [result |-> "panic"]
       ELSE [result |-> "ok",
             config |-> [api_port |-> api_port.value,
                         stream_fallback_timeout |-> timeout.value]]

ConfigUninit == [state |-> "uninit"]

\* No variable is set and config() has been called (Api::new, api.rs:92-105).
ConfigDefault ==
    /\ env = [LIVE_COMPOSITOR_API_PORT |-> EnvUnset,
              LIVE_COMPOSITOR_STREAM_FALLBACK_TIMEOUT_MS |-> EnvUnset]
    /\ CONFIG = [state |-> "init",
                 config |-> [api_port |-> DEFAULT_API_PORT,
                             stream_fallback_timeout |->
                                 DEFAULT_STREAM_FALLBACK_TIMEOUT]]
    /\ configCall = "ok"

\* No port search has overflowed; a build without overflow checks.
ProbeIdle ==
    /\ overflow_checks = FALSE
    /\ probeWrapped = FALSE
    /\ handlerPanicked = FALSE

\* Threads that use the output registry: two callers of the Pipeline methods
\* taking `&self` and the render driver worker.
Handlers == {"h1", "h2"}
Threads == Handlers \cup {"driver"}
NoArg == [id |-> "none", addr |-> [ip |-> "none", port |-> 0], rest |-> <<>>]

\* No thread is inside an operation on the output registry.
LockIdle ==
    /\ regLock = "free"
    /\ tPc = [t \in Threads |-> "none"]
    /\ tArg = [t \in Threads |-> NoArg]
    /\ overwritten = FALSE

ExtIdle == QueryIdle /\ QueueIdle /\ WorkersIdle /\ ConfigDefault /\ LockIdle
           /\ ProbeIdle


(***************************************************************************)
(* HashMap helpers.                                                        *)
(***************************************************************************)
EmptyMap == [k \in {} |-> k]
MapInsert(m, key, value) ==
    [k \in DOMAIN m \cup {key} |-> IF k = key THEN value ELSE m[k]]
MapRemove(m, key) == [k \in DOMAIN m \ {key} |-> m[k]]

(***************************************************************************)
(* Results and responses.                                                  *)
(***************************************************************************)
Ok == [kind |-> "Ok"]
Err(kind, id) == [kind |-> kind, id |-> id]
NoRequest == [type |-> "none"]
NoResponse == [body |-> "none"]
\* http.rs:80-88  ResponseHandler::Ok / Response::Ok {}
ResponseOk == [status |-> 200, body |-> "Ok"]
\* api.rs:59  Response::RegisteredPort(u16)
RegisteredPort(p) == [status |-> 200, body |-> "RegisteredPort", port |-> p]
\* ApiError::new(code, ..., StatusCode(400))
ApiError(code) == [status |-> 400, body |-> "error", code |-> code]
\* `e.into()` / `?` : a pipeline error surfaced as the response
ErrorResponse(e) == [body |-> "error", code |-> e.kind, id |-> e.id]

(***************************************************************************)
(* Pipeline: input side (pipeline.rs:91-124).                              *)
(* The input-side state is threaded through as a record so that a handler  *)
(* making several calls sees the effect of each.                           *)
(***************************************************************************)
InputState ==
    [inputs |-> inputs, queueInputs |-> queueInputs,
     transports |-> transports, decoders |-> decoders]

\* Input::new binds a UDP socket on `port`: the bind fails with AddrInUse
\* when the port is held by another socket.
PortInUse(st, port) == port \in externalPorts \cup st.transports

\* Variant: the membership test always answers "absent".
contains_key_never(m, id) == FALSE

\* HashMap::contains_key on a registry
contains_key(m, id) == id \in DOMAIN m

\* Input::new succeeded: the receiver holds the socket bound on `port`.
InputConstructed(st, port) == [st EXCEPT !.transports = @ \cup {port}]
\* The local `input` goes out of scope on an early return: socket released.
InputDropped(st, port) == [st EXCEPT !.transports = @ \ {port}]

\* Variant of register_input: the entry is inserted (and the queue told)
\* before the decoder is constructed, and stays when Decoder::new fails.
Pipeline_register_input_insert_first(st, id, port, fault) ==
    IF id \in DOMAIN st.inputs
    THEN [st |-> st, result |-> Err("AlreadyRegistered", id), constructed |-> {}]
    ELSE IF port \in externalPorts \cup st.transports
    THEN [st |-> st, result |-> Err("InputError.SocketBind.AddrInUse", id),
          constructed |-> {}]
    ELSE IF fault = "transport"
    THEN [st |-> st, result |-> Err("InputError.Other", id), constructed |-> {}]
    ELSE LET st1 == [inputs |-> MapInsert(st.inputs, id, [port |-> port]),
                     queueInputs |-> st.queueInputs \cup {id},
                     transports |-> st.transports \cup {port},
                     decoders |-> st.decoders]
         IN IF fault = "decoder"
            THEN [st |-> st1, result |-> Err("DecoderError", id),
                  constructed |-> {"transport"}]
            ELSE [st |-> [st1 EXCEPT !.decoders = @ \cup {id}],
                  result |-> Ok,
                  constructed |-> {"transport", "decoder"}]

\* One call of Pipeline::register_input.  `fault` is the construction
\* failure (if any) the collaborators report during this call.
Pipeline_register_input(st, id, port, fault) ==
    IF contains_key(st.inputs, id)
    THEN [st |-> st, result |-> Err("AlreadyRegistered", id), constructed |-> {}]
    ELSE IF PortInUse(st, port)
    THEN [st |-> st, result |-> Err("InputError.SocketBind.AddrInUse", id),
          constructed |-> {}]
    ELSE IF fault = "transport"
    THEN [st |-> st, result |-> Err("InputError.Other", id), constructed |-> {}]
    ELSE LET st1 == InputConstructed(st, port) IN
         IF fault = "decoder"
         THEN [st |-> InputDropped(st1, port), result |-> Err("DecoderError", id),
               constructed |-> {"transport"}]
         ELSE [st |-> [inputs |-> MapInsert(st1.inputs, id, [port |-> port]),
                       queueInputs |-> st1.queueInputs \cup {id},
                       transports |-> st1.transports,
                       decoders |-> st1.decoders \cup {id}],
               result |-> Ok,
               constructed |-> {"transport", "decoder"}]

\* Variant of unregister_input without the queue.remove_input call.
Pipeline_unregister_input_keep_queue(st, id) ==
    IF id \notin DOMAIN st.inputs
    THEN [st |-> st, result |-> Err("NotFound", id)]
    ELSE [st |-> [inputs |-> MapRemove(st.inputs, id),
                  queueInputs |-> st.queueInputs,
                  transports |-> st.transports \ {st.inputs[id].port},
                  decoders |-> st.decoders \ {id}],
          result |-> Ok]

\* Pipeline::unregister_input
Pipeline_unregister_input(st, id) ==
    IF id \notin DOMAIN st.inputs
    THEN [st |-> st, result |-> Err("NotFound", id)]
    ELSE [st |-> [inputs |-> MapRemove(st.inputs, id),
                  queueInputs |-> st.queueInputs \ {id},
                  transports |-> st.transports \ {st.inputs[id].port},
                  decoders |-> st.decoders \ {id}],
          result |-> Ok]

(***************************************************************************)
(* Pipeline: output side (pipeline.rs:126-160, 179-198).                   *)
(***************************************************************************)
OutputState == [outputs |-> outputs, encoders |-> encoders, senders |-> senders]

\* Variant: rejects only when both dimensions are odd.
UnsupportedResolution_both(resolution) ==
    resolution.width % 2 /= 0 /\ resolution.height % 2 /= 0

\* pipeline.rs:137  the resolution test of register_output
UnsupportedResolution(resolution) ==
    resolution.width % 2 /= 0 \/ resolution.height % 2 /= 0

\* Encoder::new succeeded / the local `encoder` dropped on an early return.
EncoderConstructed(st, id) == [st EXCEPT !.encoders = @ \cup {id}]
EncoderDropped(st, id) == [st EXCEPT !.encoders = @ \ {id}]

\* One call of Pipeline::register_output.
Pipeline_register_output(st, id, resolution, addr, fault) ==
    IF contains_key(st.outputs, id)
    THEN [st |-> st, result |-> Err("AlreadyRegistered", id), constructed |-> {}]
    ELSE IF UnsupportedResolution(resolution)
    THEN [st |-> st, result |-> Err("UnsupportedResolution", id),
          constructed |-> {}]
    ELSE IF fault = "encoder"
    THEN [st |-> st, result |-> Err("EncoderError", id), constructed |-> {}]
    ELSE LET st1 == EncoderConstructed(st, id) IN
         IF fault = "output"
         THEN [st |-> EncoderDropped(st1, id), result |-> Err("OutputError", id),
               constructed |-> {"encoder"}]
         ELSE [st |-> [outputs |-> MapInsert(st1.outputs, id,
                                      [ip |-> addr.ip, port |-> addr.port,
                                       resolution |-> resolution]),
                       encoders |-> st1.encoders,
                       senders |-> st1.senders \cup {id}],
               result |-> Ok,
               constructed |-> {"encoder", "transport"}]

\* Pipeline::unregister_output
Pipeline_unregister_output(st, id) ==
    IF id \notin DOMAIN st.outputs
    THEN [st |-> st, result |-> Err("NotFound", id)]
    ELSE [st |-> [outputs |-> MapRemove(st.outputs, id),
                  encoders |-> st.encoders \ {id},
                  senders |-> st.senders \ {id}],
          result |-> Ok]

\* The `.map(...).collect::<Result<Vec<_>, _>>()` of Pipeline::update_scene:
\* the scenes with their resolutions, or the first lookup failure.
RECURSIVE CollectScenes(_, _, _)
CollectScenes(outs, scenes, acc) ==
    IF scenes = <<>>
    THEN [result |-> Ok, scenes |-> acc]
    ELSE LET s == Head(scenes) IN
         IF s.output_id \notin DOMAIN outs
         THEN [result |-> Err("OutputNotRegistered", s.output_id), scenes |-> <<>>]
         ELSE CollectScenes(outs, Tail(scenes),
                  Append(acc, [output_id |-> s.output_id, root |-> s.root,
                               resolution |-> outs[s.output_id].resolution]))

\* Variant of update_scene: every scene is forwarded to the renderer as
\* soon as its resolution is known, the lookup failure ending the loop.
RECURSIVE UpdateEach(_, _, _)
UpdateEach(outs, scenes, log) ==
    IF scenes = <<>>
    THEN [result |-> Ok, calls |-> log]
    ELSE LET s == Head(scenes) IN
         IF s.output_id \notin DOMAIN outs
         THEN [result |-> Err("OutputNotRegistered", s.output_id), calls |-> log]
         ELSE UpdateEach(outs, Tail(scenes),
                  Append(log, [fn |-> "renderer.update_scene",
                               scenes |-> << [output_id |-> s.output_id,
                                              root |-> s.root,
                                              resolution |->
                                                  outs[s.output_id].resolution] >>]))
Pipeline_update_scene_each(outs, scenes, fault) == UpdateEach(outs, scenes, <<>>)

\* Pipeline::update_scene: the result and the calls made on the Renderer.
Pipeline_update_scene(outs, scenes, fault) ==
    LET c == CollectScenes(outs, scenes, <<>>) IN
    IF c.result /= Ok
    THEN [result |-> c.result, calls |-> <<>>]
    ELSE [result |-> IF fault = "renderer" THEN Err("RendererError", "") ELSE Ok,
          calls |-> << [fn |-> "renderer.update_scene", scenes |-> c.scenes] >>]

(***************************************************************************)
(* Request dispatcher (api.rs:107-129, api/register_request.rs).            *)
(* Every operator returns the state after the handler, the response and    *)
(* the log of the Pipeline calls the handler made.                         *)
(***************************************************************************)
\* Log entry of one Pipeline::register_input / register_output call.
InputCall(st, id, port, r) ==
    [fn |-> "register_input", id |-> id, port |-> port, before |-> st,
     after |-> r.st, result |-> r.result, constructed |-> r.constructed]
OutputCall(st, id, resolution, addr, r) ==
    [fn |-> "register_output", id |-> id, resolution |-> resolution,
     addr |-> addr, before |-> st, after |-> r.st, result |-> r.result,
     constructed |-> r.constructed]

\* Variant: every transport failure counts as "port not available".
check_port_not_available_any(result) ==
    result.kind \in {"InputError.SocketBind.AddrInUse", "InputError.Other"}

\* register_request.rs:166-187: TRUE when the function returns Err, i.e. the
\* failure is a socket bind failure of kind AddrInUse.
check_port_not_available(result) ==
    result.kind = "InputError.SocketBind.AddrInUse"

\* register_request.rs:84-92: the candidate is taken by a registered input.
PortUsedByInput(st, port) ==
    \E i \in DOMAIN st.inputs :
        st.inputs[i].port = port \/ st.inputs[i].port + 1 = port

\* register_request.rs:81-126: the loop `for port in start..=end`.
RECURSIVE ProbeRange(_, _, _, _, _, _)
ProbeRange(st, port, end, id, fault, log) ==
    IF port > end
    THEN [st |-> st, response |-> ApiError("PORT_ALREADY_IN_USE"), calls |-> log]
    ELSE IF PortUsedByInput(st, port)
    THEN ProbeRange(st, port + 1, end, id, fault, log)
    ELSE LET r == Pipeline_register_input(st, id, port, fault)
             log1 == Append(log, InputCall(st, id, port, r))
         IN IF check_port_not_available(r.result)
            THEN ProbeRange(r.st, port + 1, end, id, fault, log1)
            ELSE [st |-> r.st,
                  response |-> IF r.result = Ok THEN RegisteredPort(port)
                               ELSE ErrorResponse(r.result),
                  calls |-> log1]

\* register_request.rs:129-160: Port::Exact
RegisterExact(st, port, id, fault) ==
    IF \E i \in DOMAIN st.inputs : st.inputs[i].port = port
    THEN [st |-> st, response |-> ApiError("PORT_ALREADY_IN_USE"), calls |-> <<>>]
    ELSE LET r == Pipeline_register_input(st, id, port, fault)
             log == << InputCall(st, id, port, r) >>
         IN IF check_port_not_available(r.result)
            THEN [st |-> r.st, response |-> ApiError("PORT_ALREADY_IN_USE"),
                  calls |-> log]
            ELSE [st |-> r.st,
                  response |-> IF r.result = Ok THEN RegisteredPort(port)
                               ELSE ErrorResponse(r.result),
                  calls |-> log]

\* Variant of register_input: the entry is inserted with no test of the
\* port, neither against the registered inputs nor by the socket bind.
Api_register_input_unchecked(st, id, port, fault) ==
    LET p == IF port.kind = "Range" THEN port.start ELSE port.exact IN
    IF contains_key(st.inputs, id)
    THEN [st |-> st, response |-> ErrorResponse(Err("AlreadyRegistered", id)),
          calls |-> <<>>]
    ELSE [st |-> [inputs |-> MapInsert(st.inputs, id, [port |-> p]),
                  queueInputs |-> st.queueInputs \cup {id},
                  transports |-> st.transports \cup {p},
                  decoders |-> st.decoders \cup {id}],
          response |-> RegisteredPort(p), calls |-> <<>>]

\* register_request.rs:72-162  register_input
Api_register_input(st, id, port, fault) ==
    IF port.kind = "Range"
    THEN ProbeRange(st, port.start, port.end, id, fault, <<>>)
    ELSE RegisterExact(st, port.exact, id, fault)

\* Variant: the (ip, port) search finds nothing.
AddrUsedByOutput_never(st, addr) == FALSE

\* register_request.rs:53-64: the (ip, port) search under with_outputs
AddrUsedByOutput(st, addr) ==
    \E o \in DOMAIN st.outputs :
        st.outputs[o].port = addr.port /\ st.outputs[o].ip = addr.ip

\* register_request.rs:45-70  register_output
Api_register_output(st, id, resolution, addr, fault) ==
    IF AddrUsedByOutput(st, addr)
    THEN [st |-> st, response |-> ApiError("PORT_AND_IP_ALREADY_IN_USE"),
          calls |-> <<>>]
    ELSE LET r == Pipeline_register_output(st, id, resolution, addr, fault) IN
         [st |-> r.st,
          response |-> IF r.result = Ok THEN ResponseOk
                       ELSE ErrorResponse(r.result),
          calls |-> << OutputCall(st, id, resolution, addr, r) >>]

\* Port arguments of a register input_stream request (api.rs:62-66).
PortArgs ==
    { [kind |-> "Exact", exact |-> p] : p \in Ports } \cup
    { [kind |-> "Range", start |-> a, end |-> b] :
          <<a, b>> \in { x \in Ports \X Ports : x[1] <= x[2] } }

\* Scene lists of an update_scene request.
SceneRoots == {"root_x", "root_y"}
Scene == [output_id : OutputIds, root : SceneRoots]
SceneLists == UNION { [1..n -> Scene] : n \in 0..MaxScenes }

(***************************************************************************)
(* Dispatcher actions: one per request kind.                               *)
(***************************************************************************)
SetInputState(st) ==
    /\ inputs' = st.inputs
    /\ queueInputs' = st.queueInputs
    /\ transports' = st.transports
    /\ decoders' = st.decoders

SetOutputState(st) ==
    /\ outputs' = st.outputs
    /\ encoders' = st.encoders
    /\ senders' = st.senders

\* Request::Register(RegisterRequest::InputStream)
RegisterInputStream(id, port, fault) ==
    LET r == Api_register_input(InputState, id, port, fault) IN
    /\ SetInputState(r.st)
    /\ request' = [type |-> "register", entity |-> "input_stream",
                   input_id |-> id, port |-> port]
    /\ response' = r.response
    /\ calls' = r.calls
    /\ UNCHANGED <<outputs, encoders, senders, is_started, queueStarts,
                   workers, externalPorts, session, driverVars, extVars>>

\* Request::Register(RegisterRequest::OutputStream)
RegisterOutputStream(id, resolution, addr, fault) ==
    LET r == Api_register_output(OutputState, id, resolution, addr, fault) IN
    /\ SetOutputState(r.st)
    /\ request' = [type |-> "register", entity |-> "output_stream",
                   output_id |-> id, resolution |-> resolution, addr |-> addr]
    /\ response' = r.response
    /\ calls' = r.calls
    /\ UNCHANGED <<inputs, queueInputs, transports, decoders, is_started,
                   queueStarts, workers, externalPorts, session, driverVars, extVars>>

\* Request::Unregister(UnregisterRequest::InputStream)   api.rs:174-176
UnregisterInputStream(id) ==
    LET r == Pipeline_unregister_input(InputState, id) IN
    /\ SetInputState(r.st)
    /\ request' = [type |-> "unregister", entity |-> "input_stream",
                   input_id |-> id]
    /\ response' = IF r.result = Ok THEN ResponseOk ELSE ErrorResponse(r.result)
    /\ calls' = << [fn |-> "unregister_input", id |-> id, before |-> InputState,
                    after |-> r.st, result |-> r.result] >>
    /\ UNCHANGED <<outputs, encoders, senders, is_started, queueStarts,
                   workers, externalPorts, session, driverVars, extVars>>

\* Request::Unregister(UnregisterRequest::OutputStream)  api.rs:177-179
UnregisterOutputStream(id) ==
    LET r == Pipeline_unregister_output(OutputState, id) IN
    /\ SetOutputState(r.st)
    /\ request' = [type |-> "unregister", entity |-> "output_stream",
                   output_id |-> id]
    /\ response' = IF r.result = Ok THEN ResponseOk ELSE ErrorResponse(r.result)
    /\ calls' = << [fn |-> "unregister_output", id |-> id, before |-> OutputState,
                    after |-> r.st, result |-> r.result] >>
    /\ UNCHANGED <<inputs, queueInputs, transports, decoders, is_started,
                   queueStarts, workers, externalPorts, session, driverVars, extVars>>

\* Request::UpdateScene   api.rs:123-126
UpdateScene(scenes, fault) ==
    LET r == Pipeline_update_scene(outputs, scenes, fault) IN
    /\ request' = [type |-> "update_scene", scenes |-> scenes]
    /\ response' = IF r.result = Ok THEN ResponseOk ELSE ErrorResponse(r.result)
    /\ calls' = r.calls
    /\ UNCHANGED <<pipelineVars, externalPorts, session, driverVars, extVars>>

\* Pipeline::start (pipeline.rs:200-238), seen from the dispatcher: the
\* flag test, Queue::start with the new channel's sender, the worker spawn.
\* No statement of the function assigns is_started.
\* Queue::start(sender): tick emission runs from now on; the tick counter
\* is not touched.
Queue_start(started) == TRUE

Pipeline_start ==
    IF is_started
    THEN /\ calls' = <<>>
         /\ UNCHANGED <<is_started, queueStarts, workers, qStarted>>
    ELSE /\ queueStarts' = queueStarts + 1
         /\ qStarted' = Queue_start(qStarted)
         /\ workers' = workers + 1
         /\ calls' = << [fn |-> "queue.start"], [fn |-> "thread::spawn"] >>
         /\ UNCHANGED is_started

\* Request::Start   api.rs:119-122
Start ==
    /\ queueStarts < MaxStarts
    /\ Pipeline_start
    /\ request' = [type |-> "start"]
    /\ response' = ResponseOk
    /\ UNCHANGED <<inputs, outputs, queueInputs, transports, decoders,
                   encoders, senders, externalPorts, session, driverVars,
                   queryVars, tick, buffers, tickLog, batches, facadePc,
                   workerVars, configVars, lockVars, probeVars>>

\* Another process binds or releases a UDP port.
ExternalBind(p) ==
    /\ p \notin externalPorts \cup transports
    /\ externalPorts' = externalPorts \cup {p}
    /\ UNCHANGED <<pipelineVars, session, apiVars, driverVars, extVars>>

ExternalRelease(p) ==
    /\ p \in externalPorts
    /\ externalPorts' = externalPorts \ {p}
    /\ UNCHANGED <<pipelineVars, session, apiVars, driverVars, extVars>>

(***************************************************************************)
(* Specification of the dispatcher: the state after Pipeline::new          *)
(* (pipeline.rs:66-81), requests handled one at a time (http.rs:59-61).    *)
(*                                                                         *)
(* The handlers of input_stream requests read and write only the input     *)
(* side of the Pipeline (InputState), those of output_stream and           *)
(* update_scene requests only the output side (OutputState), so a run in   *)
(* which the client mixes both adds no call that a run managing one kind   *)
(* of stream does not make.  `session` fixes, per run, the kind of stream  *)
(* the client manages; Start requests occur in both.                       *)
(***************************************************************************)
Sessions == {"input_streams", "output_streams"}

DriverIdle ==
    /\ channel = <<>>
    /\ senderAlive = FALSE
    /\ queueActive = FALSE
    /\ sent = 0
    /\ driverPc = "none"
    /\ current = -1
    /\ pending = {}
    /\ dropped = 0
    /\ renderCalls = 0
    /\ submitted = {}
    /\ stoppedLong = FALSE
    /\ renderFailed = FALSE
    /\ skipped = {}

Init ==
    /\ inputs = EmptyMap
    /\ outputs = EmptyMap
    /\ queueInputs = {}
    /\ is_started = FALSE
    /\ transports = {}
    /\ decoders = {}
    /\ encoders = {}
    /\ senders = {}
    /\ queueStarts = 0
    /\ workers = 0
    /\ session \in Sessions
    /\ externalPorts \in IF session = "input_streams" THEN SUBSET Ports ELSE {{}}
    /\ request = NoRequest
    /\ response = NoResponse
    /\ calls = <<>>
    /\ DriverIdle
    /\ ExtIdle

Next ==
    \/ /\ session = "input_streams"
       /\ \E id \in InputIds, port \in PortArgs, fault \in InputFaults :
              RegisterInputStream(id, port, fault)
    \/ /\ session = "input_streams"
       /\ \E id \in InputIds : UnregisterInputStream(id)
    \/ /\ session = "input_streams"
       /\ \E p \in Ports : ExternalBind(p)
    \/ /\ session = "input_streams"
       /\ \E p \in Ports : ExternalRelease(p)
    \/ /\ session = "output_streams"
       /\ \E id \in OutputIds, resolution \in Resolutions, addr \in OutAddrs,
             fault \in OutputFaults :
              RegisterOutputStream(id, resolution, addr, fault)
    \/ /\ session = "output_streams"
       /\ \E id \in OutputIds : UnregisterOutputStream(id)
    \/ /\ session = "output_streams"
       /\ \E scenes \in SceneLists, fault \in SceneFaults :
              UpdateScene(scenes, fault)
    \/ Start

Spec == Init /\ [][Next]_vars

(***************************************************************************)
(* Render driver: the worker spawned by Pipeline::start                    *)
(* (pipeline.rs:211-237) and the unbounded channel the Queue feeds          *)
(* (pipeline.rs:205-209).  Every worker owns the receiver of its own       *)
(* channel and decides on that channel alone; one worker is modelled.      *)
(* A batch is identified by the index of its tick.                         *)
(***************************************************************************)
dispatcherVars == <<pipelineVars, externalPorts, session, apiVars>>

\* Variants of the backlog test: `>=` for `>`, and a limit one higher.
BacklogTooLong_inclusive(len) == len >= RENDER_BACKLOG_DROP
BacklogTooLong_higher(len) == len > RENDER_BACKLOG_DROP + 1

\* pipeline.rs:213  `frames_receiver.len() > 20`
BacklogTooLong(len) == len > RENDER_BACKLOG_DROP

\* The Queue's tick driver sends the next aligned batch.
QueueSend ==
    /\ queueActive /\ senderAlive
    /\ sent < MaxBatches
    /\ channel' = Append(channel, sent)
    /\ sent' = sent + 1
    /\ UNCHANGED <<dispatcherVars, extVars, senderAlive, queueActive, driverPc, current, pending,
                   dropped, renderCalls, submitted, stoppedLong, renderFailed, skipped>>

\* The Queue stops emitting batches (no input contributes any more).
QueueStop ==
    /\ queueActive
    /\ queueActive' = FALSE
    /\ stoppedLong' = (Len(channel) > RENDER_BACKLOG_DROP)
    /\ UNCHANGED <<dispatcherVars, extVars, channel, senderAlive, sent, driverPc, current, pending,
                   dropped, renderCalls, submitted, renderFailed, skipped>>

\* The Queue and the facade are dropped: the channel has no sender left.
SenderDrop ==
    /\ senderAlive
    /\ senderAlive' = FALSE
    /\ queueActive' = FALSE
    /\ stoppedLong' = IF queueActive THEN Len(channel) > RENDER_BACKLOG_DROP
                      ELSE stoppedLong
    /\ UNCHANGED <<dispatcherVars, extVars, channel, sent, driverPc, current, pending, dropped,
                   renderCalls, submitted, renderFailed, skipped>>

\* pipeline.rs:212  `for input_frames in frames_receiver.iter()`: next batch
DriverRecv ==
    /\ driverPc = "recv"
    /\ channel /= <<>>
    /\ current' = Head(channel)
    /\ channel' = Tail(channel)
    /\ driverPc' = "check"
    /\ submitted' = {}
    /\ renderFailed' = FALSE
    /\ skipped' = {}
    /\ UNCHANGED <<dispatcherVars, extVars, senderAlive, queueActive, sent, pending, dropped,
                   renderCalls, stoppedLong>>

\* Variant of the end of the loop: the worker leaves as soon as the channel
\* is empty, whether or not a sender is left.
DriverExit_on_empty ==
    /\ driverPc = "recv"
    /\ channel = <<>>
    /\ driverPc' = "done"
    /\ UNCHANGED <<dispatcherVars, extVars, channel, senderAlive, queueActive, sent, current, pending,
                   dropped, renderCalls, submitted, stoppedLong, renderFailed, skipped>>

\* pipeline.rs:212  the iterator ends when the channel is empty and closed
DriverExit ==
    /\ driverPc = "recv"
    /\ channel = <<>>
    /\ ~senderAlive
    /\ driverPc' = "done"
    /\ UNCHANGED <<dispatcherVars, extVars, channel, senderAlive, queueActive, sent, current, pending,
                   dropped, renderCalls, submitted, stoppedLong, renderFailed, skipped>>

\* Variant of the backlog check: the drop leaves the loop (`break`).
DriverCheck_break ==
    /\ driverPc = "check"
    /\ IF Len(channel) > RENDER_BACKLOG_DROP
       THEN /\ dropped' = dropped + 1
            /\ current' = -1
            /\ driverPc' = "done"
       ELSE /\ driverPc' = "render"
            /\ UNCHANGED <<dropped, current>>
    /\ UNCHANGED <<dispatcherVars, extVars, channel, senderAlive, queueActive, sent,
                   pending, renderCalls, submitted, stoppedLong, renderFailed, skipped>>

\* pipeline.rs:213-216  the backlog check
DriverCheck ==
    /\ driverPc = "check"
    /\ IF BacklogTooLong(Len(channel))
       THEN /\ dropped' = dropped + 1
            /\ current' = -1
            /\ driverPc' = "recv"
       ELSE /\ driverPc' = "render"
            /\ UNCHANGED <<dropped, current>>
    /\ UNCHANGED <<dispatcherVars, extVars, channel, senderAlive, queueActive, sent, pending,
                   renderCalls, submitted, stoppedLong, renderFailed, skipped>>

\* pipeline.rs:218-225  renderer.render(input_frames): an error, or one
\* frame for each output of `frames`
DriverRender(ok, frames) ==
    /\ driverPc = "render"
    /\ renderCalls' = renderCalls + 1
    /\ renderFailed' = ~ok
    /\ IF ok /\ frames /= {}
       THEN /\ pending' = frames
            /\ driverPc' = "dispatch"
            /\ UNCHANGED current
       ELSE /\ pending' = {}
            /\ driverPc' = "recv"
            /\ current' = -1
    /\ UNCHANGED <<dispatcherVars, extVars, channel, senderAlive, queueActive, sent, dropped,
                   submitted, stoppedLong, skipped>>

\* Variant of the dispatch loop: an unknown output ends the loop (`break`),
\* the remaining frames of the batch are not submitted.
DriverDispatch_break(id) ==
    /\ driverPc = "dispatch"
    /\ id \in pending
    /\ submitted' = IF contains_key(outputs, id)
                    THEN submitted \cup {id}
                    ELSE submitted
    /\ skipped' = IF contains_key(outputs, id)
                  THEN skipped
                  ELSE skipped \cup {id}
    /\ pending' = IF contains_key(outputs, id) THEN pending \ {id} ELSE {}
    /\ IF pending' = {}
       THEN driverPc' = "recv" /\ current' = -1
       ELSE UNCHANGED <<driverPc, current>>
    /\ UNCHANGED <<dispatcherVars, extVars, channel, senderAlive, queueActive, sent, dropped,
                   renderCalls, stoppedLong, renderFailed>>

\* pipeline.rs:227-235  one iteration of `for (id, frame) in output_frames`
DriverDispatch(id) ==
    /\ driverPc = "dispatch"
    /\ id \in pending
    /\ submitted' = IF contains_key(outputs, id)
                    THEN submitted \cup {id}
                    ELSE submitted
    /\ skipped' = IF contains_key(outputs, id)
                  THEN skipped
                  ELSE skipped \cup {id}
    /\ pending' = pending \ {id}
    /\ IF pending' = {}
       THEN driverPc' = "recv" /\ current' = -1
       ELSE UNCHANGED <<driverPc, current>>
    /\ UNCHANGED <<dispatcherVars, extVars, channel, senderAlive, queueActive, sent, dropped,
                   renderCalls, stoppedLong, renderFailed>>

DriverStep ==
    \/ DriverRecv
    \/ DriverExit
    \/ DriverCheck
    \/ \E ok \in BOOLEAN, frames \in SUBSET OutputIds : DriverRender(ok, frames)
    \/ \E id \in OutputIds : DriverDispatch(id)

\* The state after: register output out_1, update_scene, one Start request.
InitDriver ==
    /\ inputs = EmptyMap
    /\ queueInputs = {}
    /\ transports = {}
    /\ decoders = {}
    /\ outputs = [o \in {"out_1"} |->
                    [ip |-> "127.0.0.1", port |-> 8002,
                     resolution |-> [width |-> 1920, height |-> 1080]]]
    /\ encoders = {"out_1"}
    /\ senders = {"out_1"}
    /\ is_started = FALSE
    /\ queueStarts = 1
    /\ workers = 1
    /\ session = "output_streams"
    /\ externalPorts = {}
    /\ request = [type |-> "start"]
    /\ response = ResponseOk
    /\ calls = << [fn |-> "queue.start"], [fn |-> "thread::spawn"] >>
    /\ channel = <<>>
    /\ senderAlive = TRUE
    /\ queueActive = TRUE
    /\ sent = 0
    /\ driverPc = "recv"
    /\ current = -1
    /\ pending = {}
    /\ dropped = 0
    /\ renderCalls = 0
    /\ submitted = {}
    /\ stoppedLong = FALSE
    /\ renderFailed = FALSE
    /\ skipped = {}
    /\ QueryIdle
    /\ WorkersIdle
    /\ LockIdle
    /\ ProbeIdle
    /\ ConfigDefault
    /\ qStarted = TRUE
    /\ tick = 0
    /\ buffers = [i \in InputIds |-> <<>>]
    /\ tickLog = <<>>
    /\ batches = <<>>
    /\ facadePc = FacadeIdle

NextDriver ==
    \/ DriverRecv
    \/ DriverExit
    \/ DriverCheck
    \/ \E ok \in BOOLEAN, frames \in SUBSET OutputIds : DriverRender(ok, frames)
    \/ \E id \in OutputIds : DriverDispatch(id)
    \/ QueueSend
    \/ QueueStop
    \/ SenderDrop

\* The worker is a thread of its own: it is scheduled whenever it can run,
\* and renderer.render and encoder.send_frame return.
SpecDriver == InitDriver /\ [][NextDriver]_vars /\ WF_vars(DriverStep)

(***************************************************************************)
(* Deferred queries: QueryRequest::WaitForNextFrame (api.rs:133-142) and    *)
(* the thread that waits for its answer (http.rs:85-118).  The listener    *)
(* registry of the Queue is modelled by its interface:                     *)
(* subscribe_input_listener stores a one-shot callback for an input, the    *)
(* next enqueue for that input invokes and consumes it.                    *)
(***************************************************************************)
QueryError(status, code) == [status |-> status, body |-> "error", code |-> code]

\* api.rs:138-140  the callback: `sender.send(Ok(Response::Ok {})).unwrap()`.
\* The send fails, and unwrap panics, when the Receiver is gone.
listener_callback(qs, q) ==
    IF qs[q].rx
    THEN [queries |-> [qs EXCEPT ![q].buf = 1], panic |-> FALSE]
    ELSE [queries |-> qs, panic |-> TRUE]

\* Api::handle_query, WaitForNextFrame arm (api.rs:133-142): a bounded(1)
\* channel, the callback owning its Sender handed to the Queue, the
\* Receiver returned as ResponseHandler::DeferredResponse.
Api_wait_for_next_frame(q, id) ==
    /\ queries[q].state = "none"
    /\ \A p \in 1..(q - 1) : queries[p].state /= "none"
    /\ queries' = [queries EXCEPT ![q] = [state |-> "waiting", input |-> id,
                                          buf |-> 0, rx |-> TRUE,
                                          since |-> enqSeq]]
    /\ listeners' = listeners \cup {[query |-> q, input |-> id]}
    /\ request' = [type |-> "query", query |-> "wait_for_next_frame",
                   input_id |-> id]
    /\ response' = [body |-> "deferred", query |-> q]
    /\ calls' = << [fn |-> "queue.subscribe_input_listener", id |-> id] >>
    /\ UNCHANGED <<pipelineVars, externalPorts, session, driverVars, workerVars, configVars, lockVars, probeVars,
                   queueVars, qResponses, fires, enqSeq, panicked>>

RECURSIVE FireAll(_, _)
FireAll(qs, due) ==
    IF due = {}
    THEN [queries |-> qs, panic |-> FALSE]
    ELSE LET q == CHOOSE x \in due : TRUE
             r == listener_callback(qs, q)
             rest == FireAll(r.queries, due \ {q})
         IN [queries |-> rest.queries, panic |-> r.panic \/ rest.panic]

\* The buffer of an input after a frame is appended: beyond the soft bound
\* the oldest frame is dropped.
BufferPush(buf, frame) ==
    LET b == Append(buf, frame) IN
    IF Len(b) > BufferBound THEN Tail(b) ELSE b

\* Variant of enqueue: the listeners it invokes stay subscribed.
Queue_enqueue_keep_listeners(id, pts) ==
    /\ enqSeq < MaxFrames
    /\ enqSeq' = enqSeq + 1
    /\ IF id \in queueInputs
       THEN LET due == { l.query : l \in { x \in listeners : x.input = id } }
                r == FireAll(queries, due)
            IN /\ buffers' = [buffers EXCEPT ![id] =
                                 BufferPush(@, [seq |-> enqSeq + 1, pts |-> pts])]
               /\ listeners' = listeners
               /\ fires' = [q \in Queries |->
                               IF q \in due
                               THEN Append(fires[q],
                                           [input |-> id, seq |-> enqSeq + 1])
                               ELSE fires[q]]
               /\ queries' = r.queries
               /\ panicked' = (panicked \/ r.panic)
       ELSE UNCHANGED <<buffers, listeners, fires, queries, panicked>>
    /\ UNCHANGED <<dispatcherVars, driverVars, workerVars, configVars, lockVars, probeVars, qResponses, qStarted, tick,
                   tickLog, batches, facadePc>>

\* Queue::enqueue(id, frame), called by the decoder of `id`: for an input
\* of the Queue the frame is appended to its buffer, and the pending
\* listeners of `id` are invoked once each and consumed.
Queue_enqueue(id, pts) ==
    /\ enqSeq < MaxFrames
    /\ enqSeq' = enqSeq + 1
    /\ IF id \in queueInputs
       THEN LET due == { l.query : l \in { x \in listeners : x.input = id } }
                r == FireAll(queries, due)
            IN /\ buffers' = [buffers EXCEPT ![id] =
                                 BufferPush(@, [seq |-> enqSeq + 1, pts |-> pts])]
               /\ listeners' = { l \in listeners : l.input /= id }
               /\ fires' = [q \in Queries |->
                               IF q \in due
                               THEN Append(fires[q],
                                           [input |-> id, seq |-> enqSeq + 1])
                               ELSE fires[q]]
               /\ queries' = r.queries
               /\ panicked' = (panicked \/ r.panic)
       ELSE UNCHANGED <<buffers, listeners, fires, queries, panicked>>
    /\ UNCHANGED <<dispatcherVars, driverVars, workerVars, configVars, lockVars, probeVars, qResponses, qStarted, tick,
                   tickLog, batches, facadePc>>

\* The Queue discards a listener without invoking it: the callback, and
\* with it the Sender of the query's channel, is dropped.
Queue_drop_listener(l) ==
    /\ l \in listeners
    /\ listeners' = listeners \ {l}
    /\ UNCHANGED <<dispatcherVars, driverVars, workerVars, configVars, lockVars, probeVars, queueVars, queries, qResponses, fires,
                   enqSeq, panicked>>

\* The callback of query q is still held by the Queue (its Sender lives).
SenderHeld(q) == \E l \in listeners : l.query = q

\* http.rs:87-116  the outcome of `response.recv_timeout(60 s)`, as the
\* response sent: a buffered message, else Timeout while a Sender lives,
\* else Disconnected.
DeferredOutcome(buf, held) ==
    IF buf = 1 THEN ResponseOk
    ELSE IF held THEN QueryError(408, "QUERY_TIMEOUT")
    ELSE QueryError(500, "INTERNAL_SERVER_ERROR")

\* Variant: a disconnected channel is reported as a timeout.
Server_deferred_response_no_500(q) ==
    /\ queries[q].state = "waiting"
    /\ qResponses' = [qResponses EXCEPT ![q] =
                         Append(@, DeferredOutcome(queries[q].buf, TRUE))]
    /\ queries' = [queries EXCEPT ![q].state = "done", ![q].rx = FALSE,
                                  ![q].buf = 0]
    /\ UNCHANGED <<dispatcherVars, driverVars, workerVars, configVars, lockVars, probeVars, queueVars, listeners, fires, enqSeq,
                   panicked>>

\* http.rs:85-118  the thread spawned for a DeferredResponse: recv_timeout
\* returns (a message, the 60 s timeout, or a disconnect), one response is
\* sent, and the Receiver is dropped with the thread's closure.
Server_deferred_response(q) ==
    /\ queries[q].state = "waiting"
    /\ qResponses' = [qResponses EXCEPT ![q] =
                         Append(@, DeferredOutcome(queries[q].buf, SenderHeld(q)))]
    /\ queries' = [queries EXCEPT ![q].state = "done", ![q].rx = FALSE,
                                  ![q].buf = 0]
    /\ UNCHANGED <<dispatcherVars, driverVars, workerVars, configVars, lockVars, probeVars, queueVars, listeners, fires, enqSeq,
                   panicked>>

\* The state after: inputs in_a and in_b registered, no request in hand.
InitQuery ==
    /\ inputs = [i \in InputIds |-> [port |-> IF i = "in_a" THEN 5000 ELSE 5002]]
    /\ queueInputs = InputIds
    /\ transports = {5000, 5002}
    /\ decoders = InputIds
    /\ outputs = EmptyMap
    /\ encoders = {}
    /\ senders = {}
    /\ is_started = FALSE
    /\ queueStarts = 0
    /\ workers = 0
    /\ session = "input_streams"
    /\ externalPorts = {}
    /\ request = NoRequest
    /\ response = NoResponse
    /\ calls = <<>>
    /\ DriverIdle
    /\ QueryIdle
    /\ WorkersIdle
    /\ LockIdle
    /\ ProbeIdle
    /\ ConfigDefault
    /\ QueueIdle

NextQuery ==
    \/ \E q \in Queries, id \in InputIds : Api_wait_for_next_frame(q, id)
    \/ \E id \in decoders : Queue_enqueue(id, 0)
    \/ \E l \in listeners : Queue_drop_listener(l)
    \/ \E q \in Queries : Server_deferred_response(q)

\* recv_timeout returns after 60 s at the latest, and the thread then sends
\* its response.
SpecQuery ==
    InitQuery /\ [][NextQuery]_vars
              /\ \A q \in Queries : WF_vars(Server_deferred_response(q))

(***************************************************************************)
(* Queue (the aligner), modelled by its contract, and the Pipeline calls   *)
(* that run beside its tick driver.  register_input and unregister_input   *)
(* write Pipeline.inputs first and call the Queue next (pipeline.rs:110-112,*)
(* 121-122); the tick driver is a thread of its own, so a tick may fall     *)
(* between the two statements.                                             *)
(***************************************************************************)
\* PTS of tick k: k * den / num seconds, as a fraction.
TickPts(k) == [n |-> k * Framerate.den, d |-> Framerate.num]
RatLess(a, b) == a.n * b.d < b.n * a.d

\* Frame PTS are counted in half tick periods: tick k is at 2k, and a frame
\* is in the window of tick k when its PTS is at most t + 1/2 tick period.
InWindow(f, k) == f.pts <= 2 * k + 1

\* Index of the frame chosen for tick k: the youngest frame in the window
\* (greatest PTS, the later enqueued of equals); 0 when none qualifies.
ChosenIndex(buf, k) ==
    LET q == { i \in DOMAIN buf : InWindow(buf[i], k) } IN
    IF q = {} THEN 0
    ELSE CHOOSE i \in q :
             \A j \in q : \/ buf[j].pts < buf[i].pts
                          \/ (buf[j].pts = buf[i].pts /\ j <= i)

\* Variant of the discard: the comparison with the chosen frame is reversed.
Retained_reversed(buf, k) ==
    LET c == ChosenIndex(buf, k)
        Keep(f) == IF c = 0 THEN f.pts >= 2 * k - 1 ELSE f.pts < buf[c].pts
    IN SelectSeq(buf, Keep)

\* The buffer after tick k: frames strictly earlier than the chosen one are
\* discarded (than t - 1/2 tick period when none was chosen).
Retained(buf, k) ==
    LET c == ChosenIndex(buf, k)
        Keep(f) == IF c = 0 THEN f.pts >= 2 * k - 1 ELSE f.pts >= buf[c].pts
    IN SelectSeq(buf, Keep)

\* Variant of the tick: a tick to which no input contributes is repeated.
Queue_tick_repeat_empty ==
    /\ qStarted
    /\ tick < MaxTicks
    /\ LET contrib == { i \in queueInputs : ChosenIndex(buffers[i], tick) /= 0 }
           frames == [i \in contrib |-> buffers[i][ChosenIndex(buffers[i], tick)]]
       IN /\ buffers' = [i \in InputIds |->
                            IF i \in queueInputs THEN Retained(buffers[i], tick)
                            ELSE buffers[i]]
          /\ batches' = IF contrib /= {}
                        THEN Append(batches, [tick |-> tick, pts |-> TickPts(tick),
                                              frames |-> frames,
                                              registered |-> DOMAIN inputs])
                        ELSE batches
          /\ tick' = IF contrib /= {} THEN tick + 1 ELSE tick
    /\ tickLog' = Append(tickLog, TickPts(tick))
    /\ Len(tickLog) < MaxTicks
    /\ UNCHANGED <<dispatcherVars, driverVars, workerVars, configVars, lockVars, probeVars, queryVars, qStarted, facadePc>>

\* The tick driver of the Queue processes tick k: every input of the Queue
\* contributes the frame chosen for it, a batch is emitted on the output
\* channel when at least one input contributed, and k advances by one.
Queue_tick ==
    /\ qStarted
    /\ tick < MaxTicks
    /\ LET contrib == { i \in queueInputs : ChosenIndex(buffers[i], tick) /= 0 }
           frames == [i \in contrib |-> buffers[i][ChosenIndex(buffers[i], tick)]]
       IN /\ buffers' = [i \in InputIds |->
                            IF i \in queueInputs THEN Retained(buffers[i], tick)
                            ELSE buffers[i]]
          /\ batches' = IF contrib /= {}
                        THEN Append(batches, [tick |-> tick, pts |-> TickPts(tick),
                                              frames |-> frames,
                                              registered |-> DOMAIN inputs])
                        ELSE batches
          /\ tick' = tick + 1
    /\ tickLog' = Append(tickLog, TickPts(tick))
    /\ UNCHANGED <<dispatcherVars, driverVars, workerVars, configVars, lockVars, probeVars, queryVars, qStarted, facadePc>>

\* The port an input of this model is registered on.
PortOf(id) == IF id = "in_a" THEN 5000 ELSE 5002

\* Pipeline::register_input up to `self.inputs.insert` (pipeline.rs:97-110).
FacadeRegisterInsert(id) ==
    /\ facadePc = FacadeIdle
    /\ LET r == Pipeline_register_input(InputState, id, PortOf(id), "none") IN
       /\ r.result = Ok
       /\ inputs' = r.st.inputs
       /\ transports' = r.st.transports
       /\ decoders' = r.st.decoders
    /\ facadePc' = [op |-> "add_input", id |-> id]
    /\ UNCHANGED <<outputs, queueInputs, is_started, encoders, senders,
                   queueStarts, workers, externalPorts, session, apiVars,
                   driverVars, workerVars, configVars, lockVars, probeVars, queryVars, qStarted, tick, buffers, tickLog,
                   batches>>

\* pipeline.rs:112  `self.queue.add_input(input_id)`
FacadeAddInput ==
    /\ facadePc.op = "add_input"
    /\ queueInputs' = queueInputs \cup {facadePc.id}
    /\ buffers' = [buffers EXCEPT ![facadePc.id] = <<>>]
    /\ facadePc' = FacadeIdle
    /\ UNCHANGED <<inputs, outputs, is_started, transports, decoders, encoders,
                   senders, queueStarts, workers, externalPorts, session,
                   apiVars, driverVars, workerVars, configVars, lockVars, probeVars, queryVars, qStarted, tick, tickLog,
                   batches>>

\* Pipeline::unregister_input up to `self.inputs.remove` (pipeline.rs:117-121).
FacadeUnregisterRemove(id) ==
    /\ facadePc = FacadeIdle
    /\ id \in DOMAIN inputs
    /\ LET r == Pipeline_unregister_input(InputState, id) IN
       /\ inputs' = r.st.inputs
       /\ transports' = r.st.transports
       /\ decoders' = r.st.decoders
    /\ facadePc' = [op |-> "remove_input", id |-> id]
    /\ UNCHANGED <<outputs, queueInputs, is_started, encoders, senders,
                   queueStarts, workers, externalPorts, session, apiVars,
                   driverVars, workerVars, configVars, lockVars, probeVars, queryVars, qStarted, tick, buffers, tickLog,
                   batches>>

\* pipeline.rs:122  `self.queue.remove_input(input_id)`: the input leaves
\* the Queue and its buffer is discarded.
FacadeRemoveInput ==
    /\ facadePc.op = "remove_input"
    /\ queueInputs' = queueInputs \ {facadePc.id}
    /\ buffers' = [buffers EXCEPT ![facadePc.id] = <<>>]
    /\ facadePc' = FacadeIdle
    /\ UNCHANGED <<inputs, outputs, is_started, transports, decoders, encoders,
                   senders, queueStarts, workers, externalPorts, session,
                   apiVars, driverVars, workerVars, configVars, lockVars, probeVars, queryVars, qStarted, tick, tickLog,
                   batches>>

\* The state after Pipeline::new and one Start request.
InitQueue ==
    /\ inputs = EmptyMap
    /\ outputs = EmptyMap
    /\ queueInputs = {}
    /\ is_started = FALSE
    /\ transports = {}
    /\ decoders = {}
    /\ encoders = {}
    /\ senders = {}
    /\ queueStarts = 1
    /\ workers = 1
    /\ session = "input_streams"
    /\ externalPorts = {}
    /\ request = [type |-> "start"]
    /\ response = ResponseOk
    /\ calls = << [fn |-> "queue.start"], [fn |-> "thread::spawn"] >>
    /\ DriverIdle
    /\ QueryIdle
    /\ WorkersIdle
    /\ LockIdle
    /\ ProbeIdle
    /\ ConfigDefault
    /\ qStarted = Queue_start(FALSE)
    /\ tick = 0
    /\ buffers = [i \in InputIds |-> <<>>]
    /\ tickLog = <<>>
    /\ batches = <<>>
    /\ facadePc = FacadeIdle

NextQueue ==
    \/ \E id \in InputIds : FacadeRegisterInsert(id)
    \/ FacadeAddInput
    \/ \E id \in InputIds : FacadeUnregisterRemove(id)
    \/ FacadeRemoveInput
    \/ \E id \in decoders, pts \in FramePts : Queue_enqueue(id, pts)
    \/ Queue_tick

SpecQueue == InitQueue /\ [][NextQueue]_vars

(***************************************************************************)
(* Several Start requests.  is_started stays false (pipeline.rs:77, 201),  *)
(* so every Start request creates a channel, hands its Sender to           *)
(* Queue::start and spawns a worker on its Receiver (pipeline.rs:205-211). *)
(* All workers share `outputs`, hence the encoders                         *)
(* (pipeline.rs:207, 228-235).                                             *)
(***************************************************************************)
\* What Queue::start does with the Sender of a later call: it keeps the
\* Sender it has and drops the new one, replaces the one it has, or sends
\* on both from then on.
QueueStartModes == {"keep", "replace", "add"}

Queue_start_sender(held, w, mode) ==
    IF \A v \in Workers : ~held[v] THEN [held EXCEPT ![w] = TRUE]
    ELSE CASE mode = "keep" -> held
           [] mode = "replace" -> [v \in Workers |-> v = w]
           [] mode = "add" -> [held EXCEPT ![w] = TRUE]

\* A Start request (api.rs:119-122, pipeline.rs:200-237) with its worker.
WorkerStart(mode) ==
    /\ queueStarts < MaxStarts
    /\ Pipeline_start
    /\ request' = [type |-> "start"]
    /\ response' = ResponseOk
    /\ IF is_started
       THEN UNCHANGED <<wSender, wPc>>
       ELSE /\ wSender' = Queue_start_sender(wSender, workers + 1, mode)
            /\ wPc' = [wPc EXCEPT ![workers + 1] = "recv"]
    /\ UNCHANGED <<inputs, outputs, queueInputs, transports, decoders,
                   encoders, senders, externalPorts, session, driverVars,
                   queryVars, tick, buffers, tickLog, batches, facadePc,
                   wChannel, wCurrent, wPending, encFrames, wHandle, lateFrames, configVars, lockVars, probeVars>>

\* The tick driver emits the batch of tick k on every Sender it holds.
Queue_send_batch ==
    /\ qStarted
    /\ tick < MaxTicks
    /\ wChannel' = [w \in Workers |->
                       IF wSender[w] THEN Append(wChannel[w], tick)
                       ELSE wChannel[w]]
    /\ tick' = tick + 1
    /\ tickLog' = Append(tickLog, TickPts(tick))
    /\ UNCHANGED <<dispatcherVars, driverVars, queryVars, qStarted, buffers,
                   batches, facadePc, wSender, wPc, wCurrent, wPending,
                   encFrames, wHandle, lateFrames, configVars, lockVars, probeVars>>

\* pipeline.rs:212-216  next batch of the worker's channel and backlog check
WorkerRecv(w) ==
    /\ wPc[w] = "recv"
    /\ wChannel[w] /= <<>>
    /\ wChannel' = [wChannel EXCEPT ![w] = Tail(wChannel[w])]
    /\ IF BacklogTooLong(Len(Tail(wChannel[w])))
       THEN UNCHANGED <<wPc, wCurrent>>
       ELSE /\ wPc' = [wPc EXCEPT ![w] = "render"]
            /\ wCurrent' = [wCurrent EXCEPT ![w] = Head(wChannel[w])]
    /\ UNCHANGED <<dispatcherVars, driverVars, queryVars, queueVars, wSender,
                   wPending, encFrames, wHandle, lateFrames, configVars, lockVars, probeVars>>

\* pipeline.rs:212  the iterator ends: channel empty and its Sender dropped
WorkerExit(w) ==
    /\ wPc[w] = "recv"
    /\ wChannel[w] = <<>>
    /\ ~wSender[w]
    /\ wPc' = [wPc EXCEPT ![w] = "done"]
    /\ UNCHANGED <<dispatcherVars, driverVars, queryVars, queueVars, wChannel,
                   wSender, wCurrent, wPending, encFrames, wHandle, lateFrames, configVars, lockVars, probeVars>>

\* pipeline.rs:218-225  renderer.render(input_frames)
WorkerRender(w, ok, frames) ==
    /\ wPc[w] = "render"
    /\ IF ok /\ frames /= {}
       THEN /\ wPending' = [wPending EXCEPT ![w] = frames]
            /\ wPc' = [wPc EXCEPT ![w] = "dispatch"]
            /\ UNCHANGED wCurrent
       ELSE /\ wPc' = [wPc EXCEPT ![w] = "recv"]
            /\ wCurrent' = [wCurrent EXCEPT ![w] = -1]
            /\ UNCHANGED wPending
    /\ UNCHANGED <<dispatcherVars, driverVars, queryVars, queueVars, wChannel,
                   wSender, encFrames, wHandle, lateFrames, configVars, lockVars, probeVars>>

\* pipeline.rs:228-232  `outputs.lock().get(&id).map(Clone::clone)`: the
\* handle of the output is cloned under the lock, a missing output is
\* logged and skipped
WorkerLookup(w, id) ==
    /\ wPc[w] = "dispatch"
    /\ id \in wPending[w]
    /\ wPending' = [wPending EXCEPT ![w] = @ \ {id}]
    /\ IF contains_key(outputs, id)
       THEN /\ wHandle' = [wHandle EXCEPT ![w] = id]
            /\ wPc' = [wPc EXCEPT ![w] = "send"]
            /\ UNCHANGED wCurrent
       ELSE /\ UNCHANGED wHandle
            /\ IF wPending[w] = {id}
               THEN /\ wPc' = [wPc EXCEPT ![w] = "recv"]
                    /\ wCurrent' = [wCurrent EXCEPT ![w] = -1]
               ELSE UNCHANGED <<wPc, wCurrent>>
    /\ UNCHANGED <<dispatcherVars, driverVars, queryVars, queueVars, wChannel,
                   wSender, encFrames, lateFrames, configVars, lockVars, probeVars>>

\* pipeline.rs:234  `output.encoder.send_frame(frame)` on the cloned handle,
\* the registry lock being released
WorkerSend(w) ==
    /\ wPc[w] = "send"
    /\ encFrames' = [encFrames EXCEPT ![wHandle[w]] = Append(@, wCurrent[w])]
    /\ lateFrames' = IF contains_key(outputs, wHandle[w])
                     THEN lateFrames
                     ELSE [lateFrames EXCEPT ![wHandle[w]] = @ + 1]
    /\ wHandle' = [wHandle EXCEPT ![w] = "none"]
    /\ IF wPending[w] = {}
       THEN /\ wPc' = [wPc EXCEPT ![w] = "recv"]
            /\ wCurrent' = [wCurrent EXCEPT ![w] = -1]
       ELSE /\ wPc' = [wPc EXCEPT ![w] = "dispatch"]
            /\ UNCHANGED wCurrent
    /\ UNCHANGED <<dispatcherVars, driverVars, queryVars, queueVars, wChannel,
                   wSender, wPending, configVars, lockVars, probeVars>>

\* The state after: register output out_1, update_scene, one Start request.
InitWorkers ==
    /\ inputs = EmptyMap
    /\ queueInputs = {}
    /\ transports = {}
    /\ decoders = {}
    /\ outputs = [o \in {"out_1"} |->
                    [ip |-> "127.0.0.1", port |-> 8002,
                     resolution |-> [width |-> 1920, height |-> 1080]]]
    /\ encoders = {"out_1"}
    /\ senders = {"out_1"}
    /\ is_started = FALSE
    /\ queueStarts = 1
    /\ workers = 1
    /\ session = "output_streams"
    /\ externalPorts = {}
    /\ request = [type |-> "start"]
    /\ response = ResponseOk
    /\ calls = << [fn |-> "queue.start"], [fn |-> "thread::spawn"] >>
    /\ DriverIdle
    /\ QueryIdle
    /\ ConfigDefault
    /\ LockIdle
    /\ ProbeIdle
    /\ qStarted = Queue_start(FALSE)
    /\ tick = 0
    /\ buffers = [i \in InputIds |-> <<>>]
    /\ tickLog = <<>>
    /\ batches = <<>>
    /\ facadePc = FacadeIdle
    /\ wChannel = [w \in Workers |-> <<>>]
    /\ wSender = [w \in Workers |-> w = 1]
    /\ wPc = [w \in Workers |-> IF w = 1 THEN "recv" ELSE "none"]
    /\ wCurrent = [w \in Workers |-> -1]
    /\ wPending = [w \in Workers |-> {}]
    /\ encFrames = [o \in OutputIds |-> <<>>]
    /\ wHandle = [w \in Workers |-> "none"]
    /\ lateFrames = [o \in OutputIds |-> 0]

NextWorkers ==
    \/ \E mode \in QueueStartModes : WorkerStart(mode)
    \/ Queue_send_batch
    \/ \E w \in Workers : WorkerRecv(w)
    \/ \E w \in Workers : WorkerExit(w)
    \/ \E w \in Workers, ok \in BOOLEAN, frames \in SUBSET OutputIds :
           WorkerRender(w, ok, frames)
    \/ \E w \in Workers, id \in OutputIds : WorkerLookup(w, id)
    \/ \E w \in Workers : WorkerSend(w)
    \/ \E id \in OutputIds : UnregisterOutputStream(id)

SpecWorkers == InitWorkers /\ [][NextWorkers]_vars

(***************************************************************************)
(* Configuration: config() (config.rs:42-48) initialises CONFIG from the   *)
(* environment on its first call.                                          *)
(***************************************************************************)
\* config.rs:45-47  CONFIG.get_or_init(|| read_config().expect(..))
config ==
    /\ IF CONFIG.state = "init"
       THEN /\ configCall' = "ok"
            /\ UNCHANGED CONFIG
       ELSE LET r == read_config(env) IN
            IF r.result = "ok"
            THEN /\ CONFIG' = [state |-> "init", config |-> r.config]
                 /\ configCall' = "ok"
            ELSE /\ configCall' = "panic"
                 /\ UNCHANGED CONFIG
    /\ UNCHANGED <<dispatcherVars, driverVars, queryVars, queueVars,
                   workerVars, lockVars, probeVars, env>>

\* The process before its first config() call, in any environment.
InitConfig ==
    /\ inputs = EmptyMap
    /\ outputs = EmptyMap
    /\ queueInputs = {}
    /\ is_started = FALSE
    /\ transports = {}
    /\ decoders = {}
    /\ encoders = {}
    /\ senders = {}
    /\ queueStarts = 0
    /\ workers = 0
    /\ session = "input_streams"
    /\ externalPorts = {}
    /\ request = NoRequest
    /\ response = NoResponse
    /\ calls = <<>>
    /\ DriverIdle
    /\ QueryIdle
    /\ QueueIdle
    /\ WorkersIdle
    /\ LockIdle
    /\ ProbeIdle
    /\ env \in [LIVE_COMPOSITOR_API_PORT : EnvValues,
                LIVE_COMPOSITOR_STREAM_FALLBACK_TIMEOUT_MS : EnvValues]
    /\ CONFIG = ConfigUninit
    /\ configCall = "none"

NextConfig == config

SpecConfig == InitConfig /\ [][NextConfig]_vars

(***************************************************************************)
(* The mutex of the output registry.  OutputRegistry::contains_key, insert *)
(* and remove lock it for one map operation each, lock() hands out the     *)
(* guard (pipeline.rs:266-280).  Pipeline::register_output,                *)
(* unregister_output and with_outputs take `&self`, so the type admits     *)
(* calls from several threads at a time; update_scene takes `&mut self`    *)
(* and runs while no other call on the Pipeline is in progress.  The       *)
(* server of http.rs:59-61 is one such caller, serving its requests one    *)
(* after the other.  The render driver worker holds a clone of the         *)
(* registry (pipeline.rs:207).                                             *)
(***************************************************************************)
\* Positions at which a thread calls Mutex::lock, and the position it is at
\* once it holds the guard.
AcquirePcs == {"precheck_lock", "check_lock", "insert_lock", "unreg_check_lock",
               "remove_lock", "scene_lock", "query_lock", "lookup_lock"}
HeldPc(pc) ==
    CASE pc = "precheck_lock" -> "precheck_closure"
      [] pc = "check_lock" -> "check_held"
      [] pc = "insert_lock" -> "insert_held"
      [] pc = "unreg_check_lock" -> "unreg_check_held"
      [] pc = "remove_lock" -> "remove_held"
      [] pc = "scene_lock" -> "scene_held"
      [] pc = "query_lock" -> "query_closure"
      [] pc = "lookup_lock" -> "lookup_held"

\* Positions inside update_scene, the `&mut self` method.
ScenePcs == {"scene_lock", "scene_held"}
\* Scene lists of update_scene, by the output ids they name.
SceneOutputIds == UNION { [1..n -> OutputIds] : n \in 1..MaxScenes }

\* (ip, port) arguments of the Register output_stream requests.
LockAddrs == { a \in OutAddrs : a.ip = "127.0.0.1" }

\* No other caller is inside a Pipeline method / inside update_scene.
Exclusive(h) == \A o \in Handlers \ {h} : tPc[o] = "idle"
Shared(h) == \A o \in Handlers \ {h} : tPc[o] \notin ScenePcs

LockRest == <<inputs, queueInputs, is_started, transports, decoders,
              queueStarts, workers, externalPorts, session, apiVars,
              driverVars, queryVars, queueVars, workerVars, configVars,
              probeVars>>

\* Mutex::lock: the thread blocks until the mutex is free, then holds it.
LockAcquire(t) ==
    /\ tPc[t] \in AcquirePcs
    /\ regLock = "free"
    /\ regLock' = t
    /\ tPc' = [tPc EXCEPT ![t] = HeldPc(@)]
    /\ UNCHANGED <<outputs, encoders, senders, tArg, overwritten, LockRest>>

\* register_request.rs:45-53  a Register output_stream request begins:
\* with_outputs is called for the (ip, port) search
BeginRegisterOutput(h, id, addr) ==
    /\ tPc[h] = "idle" /\ Shared(h)
    /\ tPc' = [tPc EXCEPT ![h] = "precheck_lock"]
    /\ tArg' = [tArg EXCEPT ![h] = [id |-> id, addr |-> addr, rest |-> <<>>]]
    /\ UNCHANGED <<outputs, encoders, senders, regLock, overwritten, LockRest>>

\* pipeline.rs:248-250 with register_request.rs:53-64: the closure has run
\* on the guard's iterator, with_outputs returns and the guard is dropped
PrecheckRelease(h) ==
    /\ tPc[h] = "precheck_closure"
    /\ regLock' = "free"
    /\ IF AddrUsedByOutput(OutputState, tArg[h].addr)
       THEN /\ tPc' = [tPc EXCEPT ![h] = "idle"]
            /\ tArg' = [tArg EXCEPT ![h] = NoArg]
       ELSE /\ tPc' = [tPc EXCEPT ![h] = "check_lock"]
            /\ UNCHANGED tArg
    /\ UNCHANGED <<outputs, encoders, senders, overwritten, LockRest>>

\* pipeline.rs:132-134 with 266-268: contains_key returns, its guard dropped
CheckRelease(h) ==
    /\ tPc[h] = "check_held"
    /\ regLock' = "free"
    /\ IF contains_key(outputs, tArg[h].id)
       THEN /\ tPc' = [tPc EXCEPT ![h] = "idle"]
            /\ tArg' = [tArg EXCEPT ![h] = NoArg]
       ELSE /\ tPc' = [tPc EXCEPT ![h] = "build"]
            /\ UNCHANGED tArg
    /\ UNCHANGED <<outputs, encoders, senders, overwritten, LockRest>>

\* pipeline.rs:136-147  resolution test, Encoder::new, Output::new
BuildOutput(h, ok) ==
    /\ tPc[h] = "build"
    /\ IF ok
       THEN /\ tPc' = [tPc EXCEPT ![h] = "insert_lock"]
            /\ UNCHANGED tArg
       ELSE /\ tPc' = [tPc EXCEPT ![h] = "idle"]
            /\ tArg' = [tArg EXCEPT ![h] = NoArg]
    /\ UNCHANGED <<outputs, encoders, senders, regLock, overwritten, LockRest>>

\* pipeline.rs:149 with 270-272: HashMap::insert under the guard; an entry
\* the map already holds for the key is replaced
InsertRelease(h) ==
    /\ tPc[h] = "insert_held"
    /\ regLock' = "free"
    /\ overwritten' = (overwritten \/ contains_key(outputs, tArg[h].id))
    /\ outputs' = MapInsert(outputs, tArg[h].id,
                      [ip |-> tArg[h].addr.ip, port |-> tArg[h].addr.port,
                       resolution |-> [width |-> 1920, height |-> 1080]])
    /\ encoders' = encoders \cup {tArg[h].id}
    /\ senders' = senders \cup {tArg[h].id}
    /\ tPc' = [tPc EXCEPT ![h] = "idle"]
    /\ tArg' = [tArg EXCEPT ![h] = NoArg]
    /\ UNCHANGED LockRest

\* pipeline.rs:153  an unregister_output call begins
BeginUnregisterOutput(h, id) ==
    /\ tPc[h] = "idle" /\ Shared(h)
    /\ tPc' = [tPc EXCEPT ![h] = "unreg_check_lock"]
    /\ tArg' = [tArg EXCEPT ![h] = [NoArg EXCEPT !.id = id]]
    /\ UNCHANGED <<outputs, encoders, senders, regLock, overwritten, LockRest>>

\* pipeline.rs:154-156 with 266-268
UnregCheckRelease(h) ==
    /\ tPc[h] = "unreg_check_held"
    /\ regLock' = "free"
    /\ IF contains_key(outputs, tArg[h].id)
       THEN /\ tPc' = [tPc EXCEPT ![h] = "remove_lock"]
            /\ UNCHANGED tArg
       ELSE /\ tPc' = [tPc EXCEPT ![h] = "idle"]
            /\ tArg' = [tArg EXCEPT ![h] = NoArg]
    /\ UNCHANGED <<outputs, encoders, senders, overwritten, LockRest>>

\* pipeline.rs:158 with 274-276: HashMap::remove under the guard
RemoveRelease(h) ==
    /\ tPc[h] = "remove_held"
    /\ regLock' = "free"
    /\ outputs' = MapRemove(outputs, tArg[h].id)
    /\ encoders' = encoders \ {tArg[h].id}
    /\ senders' = senders \ {tArg[h].id}
    /\ tPc' = [tPc EXCEPT ![h] = "idle"]
    /\ tArg' = [tArg EXCEPT ![h] = NoArg]
    /\ UNCHANGED <<overwritten, LockRest>>

\* pipeline.rs:179-183  update_scene begins; it locks once for each scene
BeginUpdateScene(h, ids) ==
    /\ tPc[h] = "idle" /\ Exclusive(h)
    /\ tPc' = [tPc EXCEPT ![h] = "scene_lock"]
    /\ tArg' = [tArg EXCEPT ![h] = [NoArg EXCEPT !.rest = ids]]
    /\ UNCHANGED <<outputs, encoders, senders, regLock, overwritten, LockRest>>

\* pipeline.rs:183-189  get, ok_or_else and encoder.resolution(); the guard
\* is a temporary of the `let` and is dropped at its end.  A missing output
\* ends the collect (pipeline.rs:196), the last scene is followed by
\* renderer.update_scene (pipeline.rs:197).
SceneRelease(h) ==
    /\ tPc[h] = "scene_held"
    /\ regLock' = "free"
    /\ IF contains_key(outputs, Head(tArg[h].rest)) /\ Tail(tArg[h].rest) /= <<>>
       THEN /\ tPc' = [tPc EXCEPT ![h] = "scene_lock"]
            /\ tArg' = [tArg EXCEPT ![h].rest = Tail(@)]
       ELSE /\ tPc' = [tPc EXCEPT ![h] = "idle"]
            /\ tArg' = [tArg EXCEPT ![h] = NoArg]
    /\ UNCHANGED <<outputs, encoders, senders, overwritten, LockRest>>

\* api.rs:156  the Outputs query begins: with_outputs is called
BeginQueryOutputs(h) ==
    /\ tPc[h] = "idle" /\ Shared(h)
    /\ tPc' = [tPc EXCEPT ![h] = "query_lock"]
    /\ UNCHANGED <<outputs, encoders, senders, regLock, tArg, overwritten, LockRest>>

\* Variant of with_outputs: the guard outlives the call (it is leaked).
QueryRelease_leak(h) ==
    /\ tPc[h] = "query_closure"
    /\ tPc' = [tPc EXCEPT ![h] = "idle"]
    /\ UNCHANGED <<outputs, encoders, senders, regLock, tArg, overwritten, LockRest>>

\* pipeline.rs:248-250 with api.rs:156-166: the closure has collected the
\* OutputInfo list from the guard's iterator, with_outputs returns
QueryRelease(h) ==
    /\ tPc[h] = "query_closure"
    /\ regLock' = "free"
    /\ tPc' = [tPc EXCEPT ![h] = "idle"]
    /\ UNCHANGED <<outputs, encoders, senders, tArg, overwritten, LockRest>>

\* pipeline.rs:227-228  the worker takes the frame of output `id`
BeginLookup(id) ==
    /\ tPc["driver"] = "idle"
    /\ tPc' = [tPc EXCEPT !["driver"] = "lookup_lock"]
    /\ tArg' = [tArg EXCEPT !["driver"] = [NoArg EXCEPT !.id = id]]
    /\ UNCHANGED <<outputs, encoders, senders, regLock, overwritten, LockRest>>

\* pipeline.rs:228-232  get and clone; the guard is a temporary of the `let`
LookupRelease ==
    /\ tPc["driver"] = "lookup_held"
    /\ regLock' = "free"
    /\ IF contains_key(outputs, tArg["driver"].id)
       THEN /\ tPc' = [tPc EXCEPT !["driver"] = "send"]
            /\ UNCHANGED tArg
       ELSE /\ tPc' = [tPc EXCEPT !["driver"] = "idle"]
            /\ tArg' = [tArg EXCEPT !["driver"] = NoArg]
    /\ UNCHANGED <<outputs, encoders, senders, overwritten, LockRest>>

\* pipeline.rs:234  output.encoder.send_frame(frame)
SendFrame ==
    /\ tPc["driver"] = "send"
    /\ tPc' = [tPc EXCEPT !["driver"] = "idle"]
    /\ tArg' = [tArg EXCEPT !["driver"] = NoArg]
    /\ UNCHANGED <<outputs, encoders, senders, regLock, overwritten, LockRest>>

\* The steps a thread takes while it holds the guard, up to its drop.
LockRelease(t) ==
    \/ t \in Handlers /\ PrecheckRelease(t)
    \/ t \in Handlers /\ CheckRelease(t)
    \/ t \in Handlers /\ InsertRelease(t)
    \/ t \in Handlers /\ UnregCheckRelease(t)
    \/ t \in Handlers /\ RemoveRelease(t)
    \/ t \in Handlers /\ SceneRelease(t)
    \/ t \in Handlers /\ QueryRelease(t)
    \/ t = "driver" /\ LookupRelease

\* The state after Pipeline::new and one Start request.
InitLock ==
    /\ inputs = EmptyMap
    /\ outputs = EmptyMap
    /\ queueInputs = {}
    /\ is_started = FALSE
    /\ transports = {}
    /\ decoders = {}
    /\ encoders = {}
    /\ senders = {}
    /\ queueStarts = 1
    /\ workers = 1
    /\ externalPorts = {}
    /\ session = "output_streams"
    /\ request = [type |-> "start"]
    /\ response = ResponseOk
    /\ calls = << [fn |-> "queue.start"], [fn |-> "thread::spawn"] >>
    /\ DriverIdle
    /\ QueryIdle
    /\ QueueIdle
    /\ WorkersIdle
    /\ ConfigDefault
    /\ ProbeIdle
    /\ regLock = "free"
    /\ tPc = [t \in Threads |-> "idle"]
    /\ tArg = [t \in Threads |-> NoArg]
    /\ overwritten = FALSE

NextLock ==
    \/ \E t \in Threads : LockAcquire(t)
    \/ \E h \in Handlers, id \in OutputIds, addr \in LockAddrs :
           BeginRegisterOutput(h, id, addr)
    \/ \E h \in Handlers : PrecheckRelease(h)
    \/ \E h \in Handlers : CheckRelease(h)
    \/ \E h \in Handlers, ok \in BOOLEAN : BuildOutput(h, ok)
    \/ \E h \in Handlers : InsertRelease(h)
    \/ \E h \in Handlers, id \in OutputIds : BeginUnregisterOutput(h, id)
    \/ \E h \in Handlers : UnregCheckRelease(h)
    \/ \E h \in Handlers : RemoveRelease(h)
    \/ \E h \in Handlers, ids \in SceneOutputIds : BeginUpdateScene(h, ids)
    \/ \E h \in Handlers : SceneRelease(h)
    \/ \E h \in Handlers : BeginQueryOutputs(h)
    \/ \E h \in Handlers : QueryRelease(h)
    \/ \E id \in OutputIds : BeginLookup(id)
    \/ LookupRelease
    \/ SendFrame

\* A thread that holds the guard is running: the map operation or the
\* closure it executes under the guard returns.
SpecLock ==
    /\ InitLock
    /\ [][NextLock]_vars
    /\ \A t \in Threads : WF_vars(LockRelease(t))

(***************************************************************************)
(* The port search of a range request in u16 arithmetic                    *)
(* (register_request.rs:80-127).  `port` and `input.port` are u16; what    *)
(* `input.port + 1` does beyond u16::MAX depends on the build: with        *)
(* overflow checks (the default of a debug profile) it panics, without     *)
(* them (the default of a release profile) it wraps to 0.                  *)
(***************************************************************************)
\* Ports at both ends of u16, used by the requests of this model.
ProbePorts == {0, 1, MaxU16 - 1, MaxU16}

\* The orders in which a HashMap may iterate over the keys S.
IterationOrders(S) ==
    { o \in [1..Cardinality(S) -> S] :
          \A i, j \in 1..Cardinality(S) : i /= j => o[i] /= o[j] }

\* register_request.rs:91  `input.port + 1` on u16
U16_add_one(a, checks) ==
    IF a + 1 <= MaxU16
    THEN [value |-> a + 1, wrapped |-> FALSE, panic |-> FALSE]
    ELSE IF checks
    THEN [value |-> 0, wrapped |-> FALSE, panic |-> TRUE]
    ELSE [value |-> (a + 1) % (MaxU16 + 1), wrapped |-> TRUE, panic |-> FALSE]

\* register_request.rs:91  the closure of `.any`:
\* `input.port == port || input.port + 1 == port`, the sum being evaluated
\* only when the first comparison is false
PortTaken(inputPort, port, checks) ==
    IF inputPort = port
    THEN [used |-> TRUE, wrapped |-> FALSE, panic |-> FALSE]
    ELSE LET sum == U16_add_one(inputPort, checks) IN
         [used |-> (~sum.panic /\ sum.value = port),
          wrapped |-> sum.wrapped, panic |-> sum.panic]

\* register_request.rs:84-91  `.any(..)` over the inputs in iteration
\* order: it stops at the first input for which the closure is true
RECURSIVE AnyPortTaken(_, _, _, _)
AnyPortTaken(ports, port, checks, wrapped) ==
    IF ports = <<>>
    THEN [used |-> FALSE, wrapped |-> wrapped, panic |-> FALSE]
    ELSE LET t == PortTaken(Head(ports), port, checks) IN
         IF t.panic
         THEN [used |-> FALSE, wrapped |-> wrapped, panic |-> TRUE]
         ELSE IF t.used
         THEN [used |-> TRUE, wrapped |-> (wrapped \/ t.wrapped), panic |-> FALSE]
         ELSE AnyPortTaken(Tail(ports), port, checks, wrapped \/ t.wrapped)

\* register_request.rs:81-126  the loop `for port in start..=end` with the
\* search in u16; `order` is the iteration order of Pipeline.inputs
RECURSIVE ProbeRangeU16(_, _, _, _, _, _, _, _)
ProbeRangeU16(st, port, end, id, order, checks, wrapped, log) ==
    IF port > end
    THEN [st |-> st, response |-> ApiError("PORT_ALREADY_IN_USE"),
          calls |-> log, wrapped |-> wrapped, panic |-> FALSE]
    ELSE LET a == AnyPortTaken([i \in DOMAIN order |-> st.inputs[order[i]].port],
                               port, checks, wrapped)
         IN IF a.panic
            THEN [st |-> st, response |-> NoResponse, calls |-> log,
                  wrapped |-> a.wrapped, panic |-> TRUE]
            ELSE IF a.used
            THEN ProbeRangeU16(st, port + 1, end, id, order, checks, a.wrapped, log)
            ELSE LET r == Pipeline_register_input(st, id, port, "none")
                     log1 == Append(log, InputCall(st, id, port, r))
                 IN IF check_port_not_available(r.result)
                    THEN ProbeRangeU16(r.st, port + 1, end, id, order, checks,
                                       a.wrapped, log1)
                    ELSE [st |-> r.st,
                          response |-> IF r.result = Ok THEN RegisteredPort(port)
                                       ELSE ErrorResponse(r.result),
                          calls |-> log1, wrapped |-> a.wrapped, panic |-> FALSE]

\* A Register input_stream request with an exact port (api.rs:62-66,
\* register_request.rs:129-160).
ProbeRegisterExact(id, port) ==
    LET r == RegisterExact(InputState, port, id, "none") IN
    /\ ~handlerPanicked
    /\ SetInputState(r.st)
    /\ request' = [type |-> "register", entity |-> "input_stream",
                   input_id |-> id, port |-> [kind |-> "Exact", exact |-> port]]
    /\ response' = r.response
    /\ calls' = r.calls
    /\ UNCHANGED <<outputs, encoders, senders, is_started, queueStarts,
                   workers, externalPorts, session, driverVars, extVars>>

\* A Register input_stream request with a range (register_request.rs:80-127).
\* A panic of the handler ends the thread that serves the requests
\* (http.rs:58-62).
ProbeRegisterRange(id, start, end, order) ==
    LET r == ProbeRangeU16(InputState, start, end, id, order, overflow_checks,
                           FALSE, <<>>) IN
    /\ ~handlerPanicked
    /\ SetInputState(r.st)
    /\ request' = [type |-> "register", entity |-> "input_stream",
                   input_id |-> id,
                   port |-> [kind |-> "Range", start |-> start, end |-> end]]
    /\ response' = r.response
    /\ calls' = r.calls
    /\ probeWrapped' = (probeWrapped \/ r.wrapped)
    /\ handlerPanicked' = r.panic
    /\ UNCHANGED <<outputs, encoders, senders, is_started, queueStarts,
                   workers, externalPorts, session, driverVars, queryVars,
                   queueVars, workerVars, configVars, lockVars, overflow_checks>>

\* The state after Pipeline::new, in a build with or without overflow checks.
\* The requests are exact ports, ranges START:END of one or two candidates
\* and Unregister input_stream requests, served while the handler thread
\* lives.
InitProbe ==
    /\ inputs = EmptyMap
    /\ outputs = EmptyMap
    /\ queueInputs = {}
    /\ is_started = FALSE
    /\ transports = {}
    /\ decoders = {}
    /\ encoders = {}
    /\ senders = {}
    /\ queueStarts = 0
    /\ workers = 0
    /\ externalPorts = {}
    /\ session = "input_streams"
    /\ request = NoRequest
    /\ response = NoResponse
    /\ calls = <<>>
    /\ DriverIdle
    /\ QueryIdle
    /\ QueueIdle
    /\ WorkersIdle
    /\ ConfigDefault
    /\ LockIdle
    /\ overflow_checks \in BOOLEAN
    /\ probeWrapped = FALSE
    /\ handlerPanicked = FALSE

NextProbe ==
    \/ \E id \in InputIds, port \in ProbePorts : ProbeRegisterExact(id, port)
    \/ \E id \in InputIds, start \in ProbePorts :
           \E end \in {start, start + 1} \cap ProbePorts,
              order \in IterationOrders(DOMAIN inputs) :
               ProbeRegisterRange(id, start, end, order)
    \/ \E id \in InputIds : ~handlerPanicked /\ UnregisterInputStream(id)

SpecProbe == InitProbe /\ [][NextProbe]_vars

(***************************************************************************)
(* Properties.                                                             *)
(***************************************************************************)
RegisterCalls ==
    { i \in DOMAIN calls : calls[i].fn \in {"register_input", "register_output"} }
IsRange(req) ==
    req.type = "register" /\ req.entity = "input_stream" /\ req.port.kind = "Range"
AddrInUseKind == "InputError.SocketBind.AddrInUse"
Odd(n) == n % 2 = 1
Min(S) == CHOOSE x \in S : \A y \in S : x <= y

\* C1: a Pipeline::register_input / register_output call that returns an
\* error leaves the registries, the queue's set of inputs and the live
\* transports, decoders and encoders exactly as they were before the call;
\* and the state the handler leaves is the state after its last call.
C1_FailedRegisterChangesNothing ==
    /\ \A i \in RegisterCalls :
           calls[i].result /= Ok => calls[i].after = calls[i].before
    /\ \A i \in RegisterCalls :
           i = Len(calls) =>
               IF calls[i].fn = "register_input"
               THEN calls[i].after = InputState
               ELSE calls[i].after = OutputState

\* C1 witness: a register_input call failed in Decoder::new after its
\* transport had been constructed, while another input is registered.
C1_Witness ==
    \E i \in RegisterCalls :
        /\ calls[i].fn = "register_input"
        /\ calls[i].result.kind = "DecoderError"
        /\ calls[i].constructed = {"transport"}
        /\ DOMAIN inputs /= {}

\* C2: a register call whose id is already in its registry returns
\* AlreadyRegistered(id), constructs nothing and leaves the existing entry
\* (and everything else) as it was.
C2_DuplicateIdRejected ==
    \A i \in RegisterCalls :
        LET c == calls[i]
            registry == IF c.fn = "register_input" THEN c.before.inputs
                        ELSE c.before.outputs
        IN c.id \in DOMAIN registry =>
               /\ c.result = Err("AlreadyRegistered", c.id)
               /\ c.constructed = {}
               /\ c.after = c.before

\* C2 witness: register_output was called for a registered OutputId.
C2_Witness ==
    \E i \in RegisterCalls :
        /\ calls[i].fn = "register_output"
        /\ calls[i].id \in DOMAIN calls[i].before.outputs
        /\ calls[i].result.kind = "AlreadyRegistered"
        /\ calls[i].id \in DOMAIN outputs

EvenOutputs ==
    \A o \in DOMAIN outputs :
        ~Odd(outputs[o].resolution.width) /\ ~Odd(outputs[o].resolution.height)

\* C3 as stated: every registered output has even width and height, and
\* every register_output call with an odd width or height returns
\* UnsupportedResolution, constructs nothing and changes nothing.
C3_Original ==
    /\ EvenOutputs
    /\ \A i \in RegisterCalls :
           LET c == calls[i] IN
           (c.fn = "register_output" /\
            (Odd(c.resolution.width) \/ Odd(c.resolution.height))) =>
               /\ c.result = Err("UnsupportedResolution", c.id)
               /\ c.constructed = {}
               /\ c.after = c.before

\* C3 amended: every registered output has even width and height, and
\* every register_output call with an OutputId that is not yet registered
\* and an odd width or height returns UnsupportedResolution, constructs
\* nothing and changes nothing.
C3_OddResolutionRejected ==
    /\ EvenOutputs
    /\ \A i \in RegisterCalls :
           LET c == calls[i] IN
           (c.fn = "register_output" /\ c.id \notin DOMAIN c.before.outputs /\
            (Odd(c.resolution.width) \/ Odd(c.resolution.height))) =>
               /\ c.result = Err("UnsupportedResolution", c.id)
               /\ c.constructed = {}
               /\ c.after = c.before

\* C3 witness: 1921x1080 was rejected for a new OutputId while another
\* output is registered.
C3_Witness ==
    \E i \in RegisterCalls :
        /\ calls[i].fn = "register_output"
        /\ calls[i].resolution = [width |-> 1921, height |-> 1080]
        /\ calls[i].result.kind = "UnsupportedResolution"
        /\ DOMAIN outputs /= {}

\* C4: after an update_scene request, if some element names an output that
\* is not registered the response is OutputNotRegistered for the first such
\* element and the renderer was not called; otherwise the renderer was
\* called exactly once, with the whole list in order, each element with the
\* resolution of its registered output.
C4_UpdateSceneAllOrNothing ==
    request.type = "update_scene" =>
        LET scenes == request.scenes
            missing == { i \in DOMAIN scenes :
                             scenes[i].output_id \notin DOMAIN outputs }
        IN IF missing /= {}
           THEN /\ response = ErrorResponse(Err("OutputNotRegistered",
                                                scenes[Min(missing)].output_id))
                /\ calls = <<>>
           ELSE /\ Len(calls) = 1
                /\ calls[1].fn = "renderer.update_scene"
                /\ DOMAIN calls[1].scenes = DOMAIN scenes
                /\ \A i \in DOMAIN scenes :
                       calls[1].scenes[i] =
                           [output_id |-> scenes[i].output_id,
                            root |-> scenes[i].root,
                            resolution |->
                                outputs[scenes[i].output_id].resolution]

\* C4 witness: a list whose first element is registered and whose second
\* is not was refused without a renderer call.
C4_Witness ==
    /\ request.type = "update_scene"
    /\ Len(request.scenes) = 2
    /\ request.scenes[1].output_id \in DOMAIN outputs
    /\ request.scenes[2].output_id \notin DOMAIN outputs
    /\ response.body = "error"
    /\ calls = <<>>

\* C5: whatever number of start() calls was made, the queue has been
\* started at most once and at most one render driver worker exists.
C5_StartIdempotent == queueStarts <= 1 /\ workers <= 1

\* C6: the step in which the worker checks the backlog of the batch it has
\* taken drops the batch, without a renderer.render call, exactly when more
\* than 20 batches are queued in the channel; with 20 or fewer it goes on
\* to call renderer.render, which the next step of the worker does.
C6_DropIffBacklogOver20 ==
    [][ /\ (driverPc = "check" /\ driverPc' /= "check") =>
               IF Len(channel) > 20
               THEN /\ dropped' = dropped + 1
                    /\ renderCalls' = renderCalls
                    /\ driverPc' = "recv"
               ELSE /\ dropped' = dropped
                    /\ renderCalls' = renderCalls
                    /\ driverPc' = "render"
        /\ (driverPc = "render" /\ driverPc' /= "render") =>
               renderCalls' = renderCalls + 1
        /\ (driverPc \notin {"check", "render"}) =>
               (dropped' = dropped /\ renderCalls' = renderCalls)
      ]_vars

\* C6 witness: the worker has dropped a batch and has rendered a batch.
C6_Witness == dropped >= 1 /\ renderCalls >= 1 /\ driverPc = "recv"

\* C7 as stated: whenever more than 20 batches are pending in the channel,
\* the worker subsequently drops a batch.
C7_Original ==
    \A n \in 0..MaxBatches :
        (Len(channel) > 20 /\ dropped = n) ~> (dropped > n)

\* C7 amended: whenever more than 21 batches are pending in the channel
\* (so that more than 20 remain once the worker has taken one), the worker
\* subsequently drops a batch.
C7_DropFollowsBacklogOver21 ==
    \A n \in 0..MaxBatches :
        (Len(channel) > 21 /\ dropped = n) ~> (dropped > n)

\* C7 witness: more than 21 batches are pending and a batch was dropped.
C7_Witness == Len(channel) > 21 /\ dropped >= 1

\* C8: once the queue has stopped sending, the backlog eventually is 20 or
\* less, and the worker always returns to the head of its loop (or ends,
\* the channel being closed and empty).
C8_BacklogDrains ==
    /\ (~queueActive) ~> (Len(channel) <= 20)
    /\ []<>(driverPc \in {"recv", "done"})

\* C8 witness: the queue stopped at a backlog above 20 and the backlog is
\* now 20 or less.
C8_Witness == stoppedLong /\ ~queueActive /\ Len(channel) <= 20

UniqueOutputAddr ==
    \A o1, o2 \in DOMAIN outputs :
        (outputs[o1].ip = outputs[o2].ip /\ outputs[o1].port = outputs[o2].port)
            => o1 = o2

\* C9: no two registered outputs have the same (ip, port), and a Register
\* output_stream request whose (ip, port) is that of a registered output is
\* answered with the 400 error PORT_AND_IP_ALREADY_IN_USE, makes no
\* Pipeline::register_output call and leaves the registry unchanged.
C9_OutputAddrUnique ==
    [][ /\ UniqueOutputAddr'
        /\ (/\ request'.type = "register"
            /\ request'.entity = "output_stream"
            /\ \E o \in DOMAIN outputs :
                   /\ outputs[o].ip = request'.addr.ip
                   /\ outputs[o].port = request'.addr.port)
           => /\ response' = ApiError("PORT_AND_IP_ALREADY_IN_USE")
              /\ response'.status = 400
              /\ calls' = <<>>
              /\ UNCHANGED <<outputs, encoders, senders>>
      ]_vars

\* C9 witness: a request for a new OutputId on the address of a registered
\* output was rejected.
C9_Witness ==
    /\ request.type = "register"
    /\ request.entity = "output_stream"
    /\ request.output_id \notin DOMAIN outputs
    /\ \E o \in DOMAIN outputs :
           outputs[o].ip = request.addr.ip /\ outputs[o].port = request.addr.port
    /\ response = ApiError("PORT_AND_IP_ALREADY_IN_USE")

\* The inputs registered when the handler of the last request began.
InputsBefore == IF calls = <<>> THEN inputs ELSE calls[1].before.inputs
SkippedCandidate(q) ==
    \E i \in DOMAIN InputsBefore :
        InputsBefore[i].port = q \/ InputsBefore[i].port + 1 = q

\* C10: for a Register input_stream request with a range START:END, the
\* register_input attempts are made on increasing ports of the range, no
\* candidate that is not taken by a registered input is passed over, every
\* attempt but the last failed with AddrInUse, an attempt that fails
\* otherwise is the last and its error is the response, and a successful
\* attempt is the last, the response is RegisteredPort of its port and the
\* input is registered on that port.
C10_RangeProbing ==
    IsRange(request) =>
        LET n == Len(calls)
            lo == request.port.start
            hi == request.port.end
            tried == { calls[i].port : i \in 1..n }
        IN /\ \A i \in 1..n :
                  /\ calls[i].fn = "register_input"
                  /\ calls[i].id = request.input_id
                  /\ calls[i].port \in lo..hi
           /\ \A i \in 1..(n - 1) :
                  /\ calls[i].port < calls[i + 1].port
                  /\ calls[i].result.kind = AddrInUseKind
           /\ \A q \in lo..hi :
                  (q \notin tried /\ ~SkippedCandidate(q)) =>
                      (n > 0 /\ calls[n].result.kind /= AddrInUseKind
                             /\ q > calls[n].port)
           /\ \A q \in tried : ~SkippedCandidate(q)
           /\ IF n = 0 \/ calls[n].result.kind = AddrInUseKind
              THEN response = ApiError("PORT_ALREADY_IN_USE")
              ELSE IF calls[n].result = Ok
              THEN /\ response = RegisteredPort(calls[n].port)
                   /\ request.input_id \in DOMAIN inputs
                   /\ inputs[request.input_id].port = calls[n].port
                   /\ calls[n].port \in transports
              ELSE response = ErrorResponse(calls[n].result)

\* C10 witness: range 5000:5002 with 5000 and 5001 bound by other
\* processes was answered RegisteredPort(5002) after three attempts.
C10_Witness ==
    /\ IsRange(request)
    /\ request.port.start = 5000 /\ request.port.end = 5002
    /\ Len(calls) = 3
    /\ calls[1].result.kind = AddrInUseKind
    /\ calls[2].result.kind = AddrInUseKind
    /\ response = RegisteredPort(5002)

IsRegisterInput(req) == req.type = "register" /\ req.entity = "input_stream"

\* C11: during range probing no register_input attempt is made for a
\* candidate port p while some registered input holds p, p - 1 or p + 1.
C11_NeighbourPortsSkipped ==
    IsRange(request) =>
        \A i \in RegisterCalls :
            LET c == calls[i] IN
            \A j \in DOMAIN c.before.inputs :
                c.before.inputs[j].port \notin {c.port - 1, c.port, c.port + 1}

\* C12: a Register input_stream request for an input_id that is registered
\* when its handler begins is answered with AlreadyRegistered for that id,
\* whatever its port argument, and the registry still holds the one entry.
C12_DuplicateInputRequestAlreadyRegistered ==
    (IsRegisterInput(request) /\ request.input_id \in DOMAIN InputsBefore) =>
        /\ response = ErrorResponse(Err("AlreadyRegistered", request.input_id))
        /\ inputs = InputsBefore

UnregisterCalls ==
    { i \in DOMAIN calls : calls[i].fn \in {"unregister_input", "unregister_output"} }

\* C13: an unregister_input / unregister_output call for an absent id
\* returns NotFound(id) and changes nothing; for a present id it returns Ok,
\* removes exactly that entry from its registry (and, for an input, the id
\* from the queue's set of inputs), leaving every other entry as it was;
\* and a register call for an id that is not in the registry is never
\* answered AlreadyRegistered.
C13_UnregisterRemovesEntry ==
    /\ \A i \in UnregisterCalls :
           LET c == calls[i]
               isInput == c.fn = "unregister_input"
               before == IF isInput THEN c.before.inputs ELSE c.before.outputs
               after == IF isInput THEN c.after.inputs ELSE c.after.outputs
           IN /\ c.after = (IF isInput THEN InputState ELSE OutputState)
              /\ IF c.id \notin DOMAIN before
                 THEN c.result = Err("NotFound", c.id) /\ c.after = c.before
                 ELSE /\ c.result = Ok
                      /\ DOMAIN after = DOMAIN before \ {c.id}
                      /\ \A k \in DOMAIN after : after[k] = before[k]
                      /\ isInput =>
                             c.after.queueInputs = c.before.queueInputs \ {c.id}
    /\ \A i \in RegisterCalls :
           LET c == calls[i]
               registry == IF c.fn = "register_input" THEN c.before.inputs
                           ELSE c.before.outputs
           IN c.id \notin DOMAIN registry => c.result.kind /= "AlreadyRegistered"
    /\ queueInputs = DOMAIN inputs

\* C13 witness: unregister_input removed one of two registered inputs.
C13_Witness ==
    \E i \in UnregisterCalls :
        /\ calls[i].fn = "unregister_input"
        /\ calls[i].result = Ok
        /\ Cardinality(DOMAIN calls[i].before.inputs) = 2
        /\ DOMAIN inputs = DOMAIN calls[i].before.inputs \ {calls[i].id}
        /\ queueInputs = DOMAIN inputs

\* C14: every WaitForNextFrame query gets exactly one response: never a
\* second one, the one sent is Ok {} when the callback has put its message
\* in the channel before the wait ends, QUERY_TIMEOUT (408) when the wait
\* ends with the channel empty and its Sender alive, INTERNAL_SERVER_ERROR
\* (500) when the Sender was dropped without a message; a query stops
\* waiting only by being answered, and eventually no query is left waiting.
C14_ExactlyOneDeferredResponse ==
    /\ [](\A q \in Queries :
              /\ Len(qResponses[q]) <= 1
              /\ (queries[q].state = "done") <=> (Len(qResponses[q]) = 1)
              /\ queries[q].buf = 1 => fires[q] /= <<>>)
    /\ [][\A q \in Queries :
              qResponses'[q] /= qResponses[q] =>
                  /\ qResponses[q] = <<>>
                  /\ qResponses'[q] =
                        << IF fires[q] /= <<>> THEN ResponseOk
                           ELSE IF SenderHeld(q)
                           THEN QueryError(408, "QUERY_TIMEOUT")
                           ELSE QueryError(500, "INTERNAL_SERVER_ERROR") >>
       ]_vars
    /\ [][\A q \in Queries :
              (queries[q].state = "waiting" /\ queries'[q].state /= "waiting") =>
                  Len(qResponses'[q]) = 1
       ]_vars
    /\ <>[](\A q \in Queries : queries[q].state /= "waiting")

\* C14 witness: one query was answered Ok {} after its listener fired, the
\* other INTERNAL_SERVER_ERROR after its listener was dropped.
C14_Witness ==
    /\ qResponses[1] = << ResponseOk >>
    /\ fires[1] /= <<>>
    /\ qResponses[2] = << QueryError(500, "INTERNAL_SERVER_ERROR") >>
    /\ fires[2] = <<>>

\* C15: the callback of a subscription is invoked at most once, by an
\* enqueue for the input it was subscribed to that was made after the
\* subscription, and the invocation removes it from the Queue.
C15_ListenerSingleShot ==
    \A q \in Queries :
        /\ Len(fires[q]) <= 1
        /\ fires[q] /= <<>> =>
               /\ fires[q][1].input = queries[q].input
               /\ fires[q][1].seq > queries[q].since
               /\ ~SenderHeld(q)

\* C15 witness: a listener subscribed after the first frame of its input
\* fired on a later frame of that input, while a frame of the other input
\* was enqueued in between.
C15_Witness ==
    /\ fires[1] /= <<>>
    /\ fires[1][1].seq >= queries[1].since + 2
    /\ queries[2].state = "waiting"
    /\ queries[2].input /= queries[1].input
    /\ SenderHeld(2)
    /\ fires[2] = <<>>

C19_BatchKeysRegistered ==
    \A i \in DOMAIN batches :
        DOMAIN batches[i].frames \subseteq batches[i].registered

\* C18: for every output, the frames submitted to its encoder are in
\* strictly increasing tick order.
C18_EncoderTickOrder ==
    \A o \in OutputIds :
        \A i, j \in DOMAIN encFrames[o] :
            i < j => encFrames[o][i] < encFrames[o][j]

\* C20: once the configuration is read, stream_fallback_timeout is N ms
\* when LIVE_COMPOSITOR_STREAM_FALLBACK_TIMEOUT_MS is the number N, and
\* 2000 ms when the variable is unset or not a number.
C20_FallbackTimeoutMillis ==
    CONFIG.state = "init" =>
        LET v == env.LIVE_COMPOSITOR_STREAM_FALLBACK_TIMEOUT_MS IN
        CONFIG.config.stream_fallback_timeout =
            IF v.kind = "number" THEN v.n ELSE 2000

\* C26: whenever no Pipeline call is in progress, the InputIds of the input
\* registry are the InputIds registered in the Queue, whatever register_input
\* and unregister_input calls, successful or failed, were made before.
C26_RegistryMatchesQueue ==
    facadePc = FacadeIdle => DOMAIN inputs = queueInputs

\* C26 witness: with one input registered, a register_input call has just
\* failed after the transport was constructed.
C26_Witness ==
    /\ DOMAIN inputs = {"in_a"}
    /\ queueInputs = {"in_a"}
    /\ \E i \in DOMAIN calls :
           /\ calls[i].fn = "register_input"
           /\ calls[i].id = "in_b"
           /\ calls[i].result = Err("DecoderError", "in_b")

C29_LateListenerDoesNotPanic == ~panicked

\* C22: every enqueue call made by a decoder is for an input that is in the
\* Queue's set of inputs at that moment: the call lands in a buffer.
C22_EnqueueOnlyForQueueInputs ==
    [][enqSeq' /= enqSeq =>
           \E id \in queueInputs : buffers'[id] /= buffers[id]]_vars

\* C24: a render error drops the batch (nothing of it is pending, submitted
\* or skipped, and the worker is back at the head of its loop); in the
\* dispatch loop each frame leaves `pending` alone, is submitted when its
\* output is registered and skipped otherwise, the other frames of the batch
\* staying pending; neither case ends the worker, which always comes back
\* to take the next batch.
C24_RenderLoopErrorsSkipped ==
    /\ [][ /\ (driverPc = "render" /\ renderFailed') =>
                  /\ driverPc' = "recv"
                  /\ pending' = {} /\ submitted' = {} /\ skipped' = {}
           /\ (driverPc = "dispatch") =>
                  \E id \in pending :
                      /\ pending' = pending \ {id}
                      /\ submitted' = IF id \in DOMAIN outputs
                                      THEN submitted \cup {id} ELSE submitted
                      /\ skipped' = IF id \in DOMAIN outputs
                                    THEN skipped ELSE skipped \cup {id}
                      /\ driverPc' = IF pending' = {} THEN "recv" ELSE "dispatch"
         ]_<<driverPc, pending, submitted, skipped, renderFailed>>
    /\ (driverPc \in {"render", "dispatch"}) ~> (driverPc = "recv")

\* C24 witness: a batch whose frame for the unregistered out_2 was skipped
\* while its frame for out_1 was submitted, the worker being back at the
\* head of its loop.
C24_Witness ==
    /\ driverPc = "recv"
    /\ skipped = {"out_2"}
    /\ submitted = {"out_1"}
    /\ "out_2" \notin DOMAIN outputs

\* C25: the worker ends only from the head of its loop with the channel
\* empty and no sender left, is never ended while a sender is alive, and
\* once the last sender is dropped it consumes the queued batches and ends.
C25_WorkerEndsWhenChannelCloses ==
    /\ [][(driverPc /= "done" /\ driverPc' = "done") =>
              (driverPc = "recv" /\ channel = <<>> /\ ~senderAlive)]_vars
    /\ [](driverPc = "done" => (~senderAlive /\ channel = <<>>))
    /\ (~senderAlive) ~> (driverPc = "done")

\* C25 witness: the Queue stopped with more than 20 batches queued, the
\* sender was dropped, and the worker has ended with the channel empty.
C25_Witness ==
    /\ driverPc = "done"
    /\ stoppedLong
    /\ ~senderAlive
    /\ channel = <<>>
    /\ renderCalls >= 1

\* C30: after unregister_output(id) has returned, at most one more frame is
\* submitted to the encoder of that output.
C30_AtMostOneLateFrame ==
    \A o \in OutputIds : lateFrames[o] <= 1

\* C21: no register_output call replaces an entry of the output registry:
\* between its check that the OutputId is absent and its insert no other
\* call has inserted the id.
C21_RegisterOutputCheckAndInsertAtomic == ~overwritten

\* C23: no closure handed to with_outputs and no encoder.send_frame runs
\* while the mutex of the output registry is held by the thread running it.
C23_NoCallbackUnderRegistryLock ==
    \A t \in Threads :
        tPc[t] \in {"precheck_closure", "query_closure", "send"} => regLock /= t

\* C28: no thread calls lock on the output registry mutex while it holds
\* the guard, the guard is held only by a thread inside a map operation or
\* a closure of with_outputs, and the mutex is free again after every
\* acquisition.
C28_RegistryLockNoDeadlock ==
    /\ [](\A t \in Threads : tPc[t] \in AcquirePcs => regLock /= t)
    /\ [](\A t \in Threads :
              regLock = t <=> tPc[t] \in { HeldPc(pc) : pc \in AcquirePcs })
    /\ []<>(regLock = "free")

\* C28 witness: out_1 is registered, a handler holds the guard inside the
\* closure of the Outputs query while the worker waits at its lookup and the
\* other handler at the removal of out_1.
C28_Witness ==
    /\ DOMAIN outputs = {"out_1"}
    /\ regLock = "h1"
    /\ tPc["h1"] = "query_closure"
    /\ tPc["driver"] = "lookup_lock"
    /\ tPc["h2"] = "remove_lock"

\* C31: the test `input.port + 1 == port` of the port search never leaves
\* the range of u16: no evaluation wraps around and none aborts the request
\* handler.
C31_AdjacencyTestNoOverflow == ~probeWrapped /\ ~handlerPanicked

====
